---------------------------- MODULE Spec2Model ----------------------------
(***************************************************************************)
(* Model of the damage-to-repair estimation engine of road_damage_detection *)
(* (src/utils/damage_analysis.py, class DamageAnalyzer).                   *)
(*                                                                         *)
(* Units.  The code computes with floats; the model computes the same      *)
(* quantities exactly, as integers in fixed units:                         *)
(*   lengths      pixels; pixel_to_meter_ratio 0.01 m/pixel = 1 cm/pixel   *)
(*   areas        cm^2        (1 m^2 = 10000 cm^2; 0.1 m^2 = 1000 cm^2)    *)
(*   confidence   hundredths  (0.8 = 80)                                   *)
(*   cost_per_m   rupees per m^2, as in the table                          *)
(*   repair_times tenths of an hour per m^2 (0.5 h = 5)                    *)
(* and the fields of an estimate as the decimals round() leaves them:      *)
(*   area_sqm           hundredths of a m^2    round(area, 2)              *)
(*   repair_cost        hundredths of a rupee  round(cost, 2)              *)
(*   repair_time_hours  tenths of an hour      round(hours, 1)             *)
(***************************************************************************)
EXTENDS Integers, Sequences, FiniteSets, TLC

(***************************************************************************)
(* Bounds of the model.                                                    *)
(***************************************************************************)
\* longest bbox list a detection carries (4 is the well-formed length)
MaxBBoxLen == 5
\* longest estimate list handed to generate_area_summary
MaxDamages == 6
\* largest total_images handed to generate_area_summary
MaxImages == 2
\* the largest number of files of an input folder
MaxFiles == 3

(***************************************************************************)
(* Program constants.                                                      *)
(***************************************************************************)
\* pixel_to_meter_ratio=0.01, in cm per pixel
PixelToMeterRatio == 1
\* return 0.1  # Default small area, in cm^2
DefaultArea == 1000
\* detection.get('confidence', 0.5), in hundredths
DefaultConfidence == 50
\* math.ceil(total_time_hours / 8), in hours
WorkDayHours == 8

SeverityNames == {"minor", "moderate", "severe", "critical"}

DamageTypes ==
    {"D00_Longitudinal_Crack", "D10_Transverse_Crack", "D20_Alligator_Crack",
     "D40_Pothole", "Repair", "Block_Crack"}

\* the index of a severity in ['minor', 'moderate', 'severe', 'critical']
SeverityRank(severity) ==
    CASE severity = "minor" -> 0
      [] severity = "moderate" -> 1
      [] severity = "severe" -> 2
      [] severity = "critical" -> 3

\* self.repair_costs
repair_costs ==
    [t \in DamageTypes |->
        CASE t = "D00_Longitudinal_Crack" ->
                [minor    |-> [cost_per_m |-> 1200, material |-> "Crack sealing compound", method |-> "Hot pour crack sealing"],
                 moderate |-> [cost_per_m |-> 2000, material |-> "Rubberized crack filler", method |-> "Routing and sealing"],
                 severe   |-> [cost_per_m |-> 3600, material |-> "Asphalt patching mix", method |-> "Mill and overlay"],
                 critical |-> [cost_per_m |-> 6800, material |-> "Full depth asphalt", method |-> "Complete reconstruction"]]
          [] t = "D10_Transverse_Crack" ->
                [minor    |-> [cost_per_m |-> 1440, material |-> "Crack sealing compound", method |-> "Surface sealing"],
                 moderate |-> [cost_per_m |-> 2400, material |-> "Polymer-modified sealant", method |-> "Crack routing and sealing"],
                 severe   |-> [cost_per_m |-> 4000, material |-> "Asphalt overlay", method |-> "Mill and resurface"],
                 critical |-> [cost_per_m |-> 7200, material |-> "Full reconstruction", method |-> "Complete rebuild"]]
          [] t = "D20_Alligator_Crack" ->
                [minor    |-> [cost_per_m |-> 2800, material |-> "Micro-surfacing", method |-> "Surface treatment"],
                 moderate |-> [cost_per_m |-> 5200, material |-> "Thin overlay", method |-> "2-inch overlay"],
                 severe   |-> [cost_per_m |-> 9600, material |-> "Full depth patching", method |-> "Remove and replace"],
                 critical |-> [cost_per_m |-> 16000, material |-> "Complete reconstruction", method |-> "Full depth reconstruction"]]
          [] t = "D40_Pothole" ->
                [minor    |-> [cost_per_m |-> 2000, material |-> "Cold patch asphalt", method |-> "Temporary patching"],
                 moderate |-> [cost_per_m |-> 3600, material |-> "Hot mix asphalt", method |-> "Permanent patching"],
                 severe   |-> [cost_per_m |-> 6000, material |-> "Full depth patch", method |-> "Saw cut and replace"],
                 critical |-> [cost_per_m |-> 12000, material |-> "Structural repair", method |-> "Base repair and overlay"]]
          [] t = "Repair" ->
                [minor    |-> [cost_per_m |-> 800, material |-> "Inspection only", method |-> "Quality assessment"],
                 moderate |-> [cost_per_m |-> 1600, material |-> "Touch-up materials", method |-> "Minor repairs"],
                 severe   |-> [cost_per_m |-> 3200, material |-> "Rework materials", method |-> "Repair rework"],
                 critical |-> [cost_per_m |-> 6400, material |-> "Complete redo", method |-> "Full reconstruction"]]
          [] t = "Block_Crack" ->
                [minor    |-> [cost_per_m |-> 1600, material |-> "Crack sealing", method |-> "Preventive sealing"],
                 moderate |-> [cost_per_m |-> 3200, material |-> "Overlay preparation", method |-> "Surface preparation"],
                 severe   |-> [cost_per_m |-> 5600, material |-> "Milling and overlay", method |-> "Remove and replace"],
                 critical |-> [cost_per_m |-> 10400, material |-> "Full reconstruction", method |-> "Complete rebuild"]]]

\* self.repair_times, in tenths of an hour per m^2
repair_times ==
    [t \in DamageTypes |->
        CASE t = "D00_Longitudinal_Crack" -> [minor |-> 5,  moderate |-> 10, severe |-> 25, critical |-> 60]
          [] t = "D10_Transverse_Crack"   -> [minor |-> 6,  moderate |-> 12, severe |-> 30, critical |-> 70]
          [] t = "D20_Alligator_Crack"    -> [minor |-> 15, moderate |-> 30, severe |-> 60, critical |-> 120]
          [] t = "D40_Pothole"            -> [minor |-> 10, moderate |-> 20, severe |-> 40, critical |-> 80]
          [] t = "Repair"                 -> [minor |-> 3,  moderate |-> 8,  severe |-> 20, critical |-> 50]
          [] t = "Block_Crack"            -> [minor |-> 8,  moderate |-> 15, severe |-> 35, critical |-> 80]]

\* a slip: the levels of severe and moderate exchanged
priority_matrix_SwappedLevels ==
    [critical |-> [level |-> 1, action |-> "IMMEDIATE",  timeline |-> "24-48 hours", risk |-> "High safety risk"],
     severe   |-> [level |-> 3, action |-> "URGENT",     timeline |-> "1-2 weeks",   risk |-> "Moderate safety risk"],
     moderate |-> [level |-> 2, action |-> "SCHEDULED",  timeline |-> "1-3 months",  risk |-> "Low safety risk"],
     minor    |-> [level |-> 4, action |-> "PREVENTIVE", timeline |-> "3-6 months",  risk |-> "Minimal risk"]]

\* self.priority_matrix
priority_matrix ==
    [critical |-> [level |-> 1, action |-> "IMMEDIATE",  timeline |-> "24-48 hours", risk |-> "High safety risk"],
     severe   |-> [level |-> 2, action |-> "URGENT",     timeline |-> "1-2 weeks",   risk |-> "Moderate safety risk"],
     moderate |-> [level |-> 3, action |-> "SCHEDULED",  timeline |-> "1-3 months",  risk |-> "Low safety risk"],
     minor    |-> [level |-> 4, action |-> "PREVENTIVE", timeline |-> "3-6 months",  risk |-> "Minimal risk"]]

(***************************************************************************)
(* Python helpers.                                                         *)
(***************************************************************************)
\* abs(x)
Abs(x) == IF x < 0 THEN -x ELSE x

\* max(a, b)
Max(a, b) == IF a >= b THEN a ELSE b

\* math.ceil(n / d) for n >= 0, d > 0
CeilDiv(n, d) == (n + d - 1) \div d

\* round(n / d, k) read in units of 10^-k, for n >= 0, d > 0, with
\* five = 5^k: to the nearest unit.  A quotient exactly halfway between two
\* units, (2q + 1) / (2 * 10^k), is a double only when 5^k divides 2q + 1, and
\* round() then takes the even unit (0.1 * 2.5 = 0.25 gives 0.2); otherwise it
\* goes by the double the product came out as, which is the one above for the
\* halfway products formed here (0.1 * 0.5 gives 0.1, 0.1 * 1.5 gives 0.2)
RoundDiv(n, d, five) ==
    LET q == n \div d
        r == n % d
    IN  IF 2 * r < d THEN q
        ELSE IF 2 * r > d THEN q + 1
        ELSE IF (2 * q + 1) % five = 0 /\ q % 2 = 0 THEN q
        ELSE q + 1

\* round(n * k / d, .) as RoundDiv(n * k, d, five), without forming n * k
RoundMulDiv(n, k, d, five) ==
    LET q == (n \div d) * k + (((n % d) * k) \div d)
        r == ((n % d) * k) % d
    IN  IF 2 * r < d THEN q
        ELSE IF 2 * r > d THEN q + 1
        ELSE IF (2 * q + 1) % five = 0 /\ q % 2 = 0 THEN q
        ELSE q + 1

(***************************************************************************)
(* Python floats: IEEE-754 binary64 arithmetic on the non-negative values  *)
(* the budget accumulates.  A value is a natural number of units 2^-75,    *)
(* held as its limbs in base 2^15, least significant first, without a      *)
(* leading zero limb (0.0 is the empty sequence).  Every double between    *)
(* 2^-22 and 2^52 is such a number, and an operation returns the exact     *)
(* result rounded to 53 significant bits, ties to even.                    *)
(***************************************************************************)
Limb == 2^15

\* limbs in 75 bits
UnitLimbs == 75 \div 15

LimbOf(a, i) == IF i <= Len(a) THEN a[i] ELSE 0

RECURSIVE Trim(_)
Trim(a) ==
    IF a = <<>> THEN <<>>
    ELSE IF a[Len(a)] = 0 THEN Trim(SubSeq(a, 1, Len(a) - 1))
    ELSE a

Zeros(n) == [i \in 1..n |-> 0]

RECURSIVE BigOfInt(_)
BigOfInt(n) == IF n = 0 THEN <<>> ELSE <<n % Limb>> \o BigOfInt(n \div Limb)

RECURSIVE IntOfBig(_)
IntOfBig(a) == IF a = <<>> THEN 0 ELSE a[1] + Limb * IntOfBig(Tail(a))

RECURSIVE BigAddCarry(_, _, _)
BigAddCarry(a, b, carry) ==
    IF a = <<>> /\ b = <<>> THEN BigOfInt(carry)
    ELSE LET s == LimbOf(a, 1) + LimbOf(b, 1) + carry
         IN  <<s % Limb>> \o BigAddCarry(IF a = <<>> THEN a ELSE Tail(a),
                                         IF b = <<>> THEN b ELSE Tail(b),
                                         s \div Limb)

BigAdd(a, b) == BigAddCarry(a, b, 0)

\* a * k + carry for a small k
RECURSIVE BigMulSmall(_, _, _)
BigMulSmall(a, k, carry) ==
    IF a = <<>> THEN BigOfInt(carry)
    ELSE LET p == a[1] * k + carry
         IN  <<p % Limb>> \o BigMulSmall(Tail(a), k, p \div Limb)

RECURSIVE BigMulAll(_, _)
BigMulAll(a, b) ==
    IF a = <<>> THEN <<>>
    ELSE IF a[1] = 0 THEN <<0>> \o BigMulAll(Tail(a), b)
    ELSE BigAdd(BigMulSmall(b, a[1], 0), <<0>> \o BigMulAll(Tail(a), b))

BigMul(a, b) == Trim(BigMulAll(a, b))

\* quotient and remainder of a by a small k
BigDivSmall(a, k) ==
    LET n == Len(a)
        rem[i \in 0..n] ==
            IF i = 0 THEN 0 ELSE (rem[i - 1] * Limb + a[n + 1 - i]) % k
    IN  [quotient |-> Trim([j \in 1..n |-> (rem[n - j] * Limb + a[j]) \div k]),
         remainder |-> rem[n]]

\* -1, 0, 1 as a < b, a = b, a > b
RECURSIVE BigCmp(_, _)
BigCmp(a, b) ==
    IF Len(a) # Len(b) THEN (IF Len(a) < Len(b) THEN -1 ELSE 1)
    ELSE IF a = <<>> THEN 0
    ELSE IF a[Len(a)] # b[Len(b)] THEN (IF a[Len(a)] < b[Len(b)] THEN -1 ELSE 1)
    ELSE BigCmp(Trim(SubSeq(a, 1, Len(a) - 1)), Trim(SubSeq(b, 1, Len(b) - 1)))

RECURSIVE BitLenSmall(_)
BitLenSmall(x) == IF x = 0 THEN 0 ELSE 1 + BitLenSmall(x \div 2)

BitLen(a) == IF a = <<>> THEN 0 ELSE (Len(a) - 1) * 15 + BitLenSmall(a[Len(a)])

\* a * 2^s, floor(a / 2^s), a mod 2^s
ShiftLeft(a, s) ==
    IF a = <<>> THEN <<>> ELSE Zeros(s \div 15) \o BigMulSmall(a, 2^(s % 15), 0)
ShiftRight(a, s) ==
    BigDivSmall(SubSeq(a, s \div 15 + 1, Len(a)), 2^(s % 15)).quotient
LowBits(a, s) ==
    Trim([i \in 1..(s \div 15 + 1) |->
            IF i <= s \div 15 THEN LimbOf(a, i) ELSE LimbOf(a, i) % 2^(s % 15)])

\* a rounded to 53 significant bits, ties to even
RoundSig(a) ==
    LET s == BitLen(a) - 53
    IN  IF s <= 0 THEN a
        ELSE LET q == ShiftRight(a, s)
                 c == BigCmp(LowBits(a, s), ShiftLeft(<<1>>, s - 1))
                 up == c > 0 \/ (c = 0 /\ q[1] % 2 = 1)
             IN  ShiftLeft(IF up THEN BigAdd(q, <<1>>) ELSE q, s)

\* a - b for a >= b
RECURSIVE BigSubBorrow(_, _, _)
BigSubBorrow(a, b, borrow) ==
    IF a = <<>> THEN <<>>
    ELSE LET d == a[1] - LimbOf(b, 1) - borrow
         IN  <<d % Limb>> \o BigSubBorrow(Tail(a), IF b = <<>> THEN b ELSE Tail(b),
                                          IF d < 0 THEN 1 ELSE 0)

BigSub(a, b) == Trim(BigSubBorrow(a, b, 0))

\* the digit q with q * b <= a < (q + 1) * b, for a < b * 2^15 and b with
\* a top limb of 2^14 or more: at most 2 below the quotient of the two top
\* limbs of a by the top limb of b
QuotientDigit(a, b) ==
    LET n == Len(b)
        estimate == (LimbOf(a, n + 1) * Limb + LimbOf(a, n)) \div b[n]
        top == IF estimate < Limb THEN estimate ELSE Limb - 1
    IN  CHOOSE q \in (top - 2)..top :
            /\ q >= 0
            /\ BigCmp(Trim(BigMulSmall(b, q, 0)), a) <= 0
            /\ BigCmp(BigMulSmall(b, q + 1, 0), a) > 0

\* quotient and remainder of a by such a b, limb by limb from the top: the
\* limbs above the i-th have given the quotient q and left the remainder r
RECURSIVE BigDivLimbs(_, _, _, _, _)
BigDivLimbs(a, b, i, q, r) ==
    IF i = 0 THEN [quotient |-> Trim(q), remainder |-> r]
    ELSE LET cur == Trim(<<a[i]>> \o r)
             digit == QuotientDigit(cur, b)
             left == BigSub(cur, BigMulSmall(b, digit, 0))
         IN  BigDivLimbs(a, b, i - 1, <<digit>> \o q, left)

\* the quotient of a by b > 0, and whether the division is exact
BigDiv(a, b) ==
    LET s == 15 - BitLenSmall(b[Len(b)])
        d == BigDivLimbs(ShiftLeft(a, s), ShiftLeft(b, s), Len(ShiftLeft(a, s)), <<>>, <<>>)
    IN  [quotient |-> d.quotient, exact |-> d.remainder = <<>>]

\* x + y and x * y of two floats
FloatAdd(x, y) == RoundSig(BigAdd(x, y))
FloatMul(x, y) ==
    LET p == RoundSig(BigMul(x, y))
    IN  SubSeq(p, UnitLimbs + 1, Len(p))

\* x / y of two floats, y > 0, for a quotient of 2^-20 or more
FloatDiv(x, y) ==
    IF x = <<>> THEN <<>>
    ELSE LET d == BigDiv(Zeros(UnitLimbs) \o x, y)
             sticky == IF d.exact THEN d.quotient
                       ELSE [d.quotient EXCEPT ![1] = (@ \div 2) * 2 + 1]
         IN  RoundSig(sticky)

\* the float a decimal literal or round(., 2) of c hundredths is: the double
\* nearest to c / 100
FloatOfHundredths(c) ==
    IF c = 0 THEN <<>>
    ELSE LET d == BigDivSmall(Zeros(2 * UnitLimbs) \o BigOfInt(c), 100)
             sticky == IF d.remainder = 0 THEN d.quotient
                       ELSE [d.quotient EXCEPT ![1] = (@ \div 2) * 2 + 1]
             r == RoundSig(sticky)
         IN  SubSeq(r, UnitLimbs + 1, Len(r))

\* round(x, 2) in hundredths: the hundredth nearest to the float's exact
\* value, the even one when it is exactly halfway
FloatRound2(x) ==
    LET y == BigMulSmall(x, 100, 0)
        q == IntOfBig(SubSeq(y, UnitLimbs + 1, Len(y)))
        c == BigCmp(Trim(SubSeq(y, 1, IF Len(y) < UnitLimbs THEN Len(y) ELSE UnitLimbs)),
                    ShiftLeft(<<1>>, 74))
    IN  IF c > 0 \/ (c = 0 /\ q % 2 = 1) THEN q + 1 ELSE q

RECURSIVE FloatSum(_, _)
\* sum(xs) accumulated from the left, starting from acc
FloatSum(xs, acc) ==
    IF xs = <<>> THEN acc ELSE FloatSum(Tail(xs), FloatAdd(acc, Head(xs)))

\* dict.get(key, default)
DictGet(d, key, default) == IF key \in DOMAIN d THEN d[key] ELSE default

\* a bbox value: None, or a list of pixel coordinates
NoneBBox == [null |-> TRUE, coords |-> <<>>]
ListBBox(coords) == [null |-> FALSE, coords |-> coords]

\* the outcome of a call: a returned value, or a raised exception
Returned(v) == [status |-> "returned", value |-> v]
Raised(e) == [status |-> "raised", error |-> e]
NotCalled == [status |-> "none"]


(***************************************************************************)
(* Unit estimator: DamageAnalyzer.analyze_single_damage and its helpers.   *)
(***************************************************************************)
\* calculate_damage_area(self, bbox, image_shape, pixel_to_meter_ratio=0.01):
\* the area in cm^2; unpacking a list of more than 4 coordinates into
\* x1, y1, x2, y2 raises ValueError
calculate_damage_area(bbox, image_shape, pixel_to_meter_ratio) ==
    IF bbox.null \/ Len(bbox.coords) = 0 \/ Len(bbox.coords) < 4
    THEN Returned(DefaultArea)
    ELSE IF Len(bbox.coords) # 4
    THEN Raised("ValueError")
    ELSE LET x1 == bbox.coords[1]
             y1 == bbox.coords[2]
             x2 == bbox.coords[3]
             y2 == bbox.coords[4]
             width_pixels == Abs(x2 - x1)
             height_pixels == Abs(y2 - y1)
             width_meters == width_pixels * pixel_to_meter_ratio
             height_meters == height_pixels * pixel_to_meter_ratio
         IN  Returned(width_meters * height_meters)

\* a slip: the confidence thresholds taken exclusive (> 0.8, > 0.6)
BaseSeverity_Exclusive(confidence) ==
    IF confidence > 80 THEN "severe"
    ELSE IF confidence > 60 THEN "moderate"
    ELSE IF confidence > 40 THEN "minor"
    ELSE "minor"

\* the base severity determine_severity takes from the confidence alone
BaseSeverity(confidence) ==
    IF confidence >= 80 THEN "severe"
    ELSE IF confidence >= 60 THEN "moderate"
    ELSE IF confidence >= 40 THEN "minor"
    ELSE "minor"

\* a slip: the area thresholds taken inclusive (>= 2.0, >= 0.5)
determine_severity_AreaInclusive(confidence, damage_type, area_sqm) ==
    LET base_severity == BaseSeverity(confidence)
    IN  IF damage_type \in {"D20_Alligator_Crack", "D40_Pothole"}
        THEN IF area_sqm >= 20000
             THEN IF base_severity = "severe" THEN "critical"
                  ELSE IF base_severity = "moderate" THEN "severe"
                  ELSE base_severity
             ELSE IF area_sqm >= 5000
             THEN IF base_severity = "minor" THEN "moderate"
                  ELSE base_severity
             ELSE base_severity
        ELSE base_severity

\* a slip: above 0.5 m^2 a minor base severity raised two steps, to severe
determine_severity_MinorToSevere(confidence, damage_type, area_sqm) ==
    LET base_severity == BaseSeverity(confidence)
    IN  IF damage_type \in {"D20_Alligator_Crack", "D40_Pothole"}
        THEN IF area_sqm > 20000
             THEN IF base_severity = "severe" THEN "critical"
                  ELSE IF base_severity = "moderate" THEN "severe"
                  ELSE base_severity
             ELSE IF area_sqm > 5000
             THEN IF base_severity = "minor" THEN "severe"
                  ELSE base_severity
             ELSE base_severity
        ELSE base_severity

\* determine_severity(self, confidence, damage_type, area_sqm); area in cm^2
determine_severity(confidence, damage_type, area_sqm) ==
    LET base_severity == BaseSeverity(confidence)
    IN  IF damage_type \in {"D20_Alligator_Crack", "D40_Pothole"}
        THEN IF area_sqm > 20000
             THEN IF base_severity = "severe" THEN "critical"
                  ELSE IF base_severity = "moderate" THEN "severe"
                  ELSE base_severity
             ELSE IF area_sqm > 5000
             THEN IF base_severity = "minor" THEN "moderate"
                  ELSE base_severity
             ELSE base_severity
        ELSE base_severity

\* get_crew_roles(self, damage_type, severity, total_crew)
get_crew_roles(damage_type, severity, total_crew) ==
    IF severity \in {"critical", "severe"}
    THEN [supervisor |-> 1,
          equipment_operator |-> IF total_crew >= 3 THEN 1 ELSE 0,
          skilled_workers |-> Max(2, total_crew - 2),
          traffic_control |-> IF total_crew >= 4 THEN 1 ELSE 0,
          safety_officer |-> IF total_crew >= 5 THEN 1 ELSE 0]
    ELSE [supervisor |-> 1,
          skilled_workers |-> total_crew - 1,
          traffic_control |-> IF total_crew >= 3 THEN 1 ELSE 0]

\* estimate_crew_size(self, damage_type, severity, area_sqm); area in cm^2
estimate_crew_size(damage_type, severity, area_sqm) ==
    LET base_crew == [minor |-> 2, moderate |-> 3, severe |-> 4, critical |-> 6]
        crew == base_crew[severity]
                  + (IF area_sqm > 50000 THEN 2
                     ELSE IF area_sqm > 20000 THEN 1
                     ELSE 0)
    IN  [total |-> crew, roles |-> get_crew_roles(damage_type, severity, crew)]

\* get_equipment_list(self, damage_type, severity)
get_equipment_list(damage_type, severity) ==
    LET base_equipment == <<"Hand tools", "Safety equipment", "Traffic cones">>
    IN  IF severity \in {"severe", "critical"}
        THEN IF damage_type \in {"D20_Alligator_Crack", "D40_Pothole"}
             THEN base_equipment \o <<"Asphalt saw", "Jackhammer", "Compactor",
                                      "Hot mix truck", "Roller", "Crack router">>
             ELSE base_equipment \o <<"Crack router", "Sealant applicator",
                                      "Air compressor", "Heating kettle">>
        ELSE base_equipment \o <<"Crack sealing equipment", "Cleaning tools">>

\* get_safety_requirements(self, damage_type, severity)
get_safety_requirements(damage_type, severity) ==
    LET base_safety == <<"High-visibility clothing", "Hard hats",
                         "Safety glasses", "Work zone setup">>
    IN  IF severity \in {"severe", "critical"}
        THEN base_safety \o <<"Traffic control plan", "Flaggers", "Temporary barriers",
                              "Warning signs", "Emergency response plan">>
        ELSE base_safety \o <<"Basic traffic control", "Warning signs">>

\* get_weather_constraints(self, damage_type)
get_weather_constraints(damage_type) ==
    [temperature |-> [min |-> 40, max |-> 100, optimal |-> "50-85F"],
     conditions |-> <<"No precipitation during work", "Dry surface required",
                      "Wind speed < 25 mph for sealants", "No freezing conditions">>,
     seasonal_notes |-> "Best performed in spring/summer/early fall"]

\* assess_traffic_impact(self, damage_type, severity, area_sqm); area in cm^2
assess_traffic_impact(damage_type, severity, area_sqm) ==
    IF severity \in {"critical", "severe"} \/ area_sqm > 10000
    THEN [lane_closure |-> "Required",
          duration |-> "Full repair duration",
          traffic_control |-> "Flaggers and signs required",
          alternate_route |-> "Recommended for major repairs",
          peak_hour_restrictions |-> "Avoid 7-9 AM and 4-6 PM"]
    ELSE [lane_closure |-> "Partial or rolling closure",
          duration |-> "Minimal disruption",
          traffic_control |-> "Basic signage sufficient",
          alternate_route |-> "Not required",
          peak_hour_restrictions |-> "Can work during off-peak hours"]

\* self.repair_costs.get(damage_type, self.repair_costs['D40_Pothole'])[severity]
RepairInfo(damage_type, severity) ==
    DictGet(repair_costs, damage_type, repair_costs["D40_Pothole"])[severity]

\* a slip: the hours of the moderate column whatever the severity
RepairTime_ModerateColumn(damage_type, severity) ==
    DictGet(repair_times, damage_type, repair_times["D40_Pothole"])["moderate"]

\* self.repair_times.get(damage_type, self.repair_times['D40_Pothole'])[severity]
RepairTime(damage_type, severity) ==
    DictGet(repair_times, damage_type, repair_times["D40_Pothole"])[severity]

\* a slip: the cost taken from the area as reported, round(area_sqm, 2)
TotalCost_OfRoundedArea(area_sqm, cost_per_m) ==
    RoundDiv(area_sqm, 100, 25) * 100 * cost_per_m

\* total_cost = area_sqm * repair_info['cost_per_m'], in 10^-4 rupee
TotalCost(area_sqm, cost_per_m) == area_sqm * cost_per_m

\* a slip: the days taken from the hours as reported, round(total_time_hours, 1)
RepairDays_OfRoundedHours(total_time_hours) ==
    CeilDiv(RoundDiv(total_time_hours, 10000, 5), WorkDayHours * 10)

\* 'repair_days': math.ceil(total_time_hours / 8), the time in 10^-5 hour
RepairDays(total_time_hours) == CeilDiv(total_time_hours, WorkDayHours * 100000)

\* the estimate analyze_single_damage builds once the area (cm^2) is known
BuildEstimate(damage_type, confidence, bbox, area_sqm) ==
    LET severity == determine_severity(confidence, damage_type, area_sqm)
        repair_info == RepairInfo(damage_type, severity)
        repair_time == RepairTime(damage_type, severity)
        priority_info == priority_matrix[severity]
        total_cost == TotalCost(area_sqm, repair_info.cost_per_m)
        total_time_hours == area_sqm * repair_time
        crew_size == estimate_crew_size(damage_type, severity, area_sqm)
        equipment_needed == get_equipment_list(damage_type, severity)
    IN  [damage_type |-> damage_type,
         severity |-> severity,
         confidence |-> confidence,
         area_sqm |-> RoundDiv(area_sqm, 100, 25),
         bbox |-> bbox,
         repair_cost |-> RoundDiv(total_cost, 100, 25),
         repair_time_hours |-> RoundDiv(total_time_hours, 10000, 5),
         repair_days |-> RepairDays(total_time_hours),
         priority |-> priority_info,
         repair_method |-> repair_info.method,
         materials_needed |-> repair_info.material,
         crew_size |-> crew_size,
         equipment_needed |-> equipment_needed,
         safety_requirements |-> get_safety_requirements(damage_type, severity),
         weather_constraints |-> get_weather_constraints(damage_type),
         traffic_impact |-> assess_traffic_impact(damage_type, severity, area_sqm)]

\* analyze_single_damage(self, detection, image_shape)
analyze_single_damage(detection, image_shape) ==
    LET damage_type == DictGet(detection, "damage_type", "Unknown")
        confidence == DictGet(detection, "confidence", DefaultConfidence)
        bbox == DictGet(detection, "bbox", ListBBox(<<0, 0, 100, 100>>))
        area == calculate_damage_area(bbox, image_shape, PixelToMeterRatio)
    IN  IF area.status = "raised"
        THEN area
        ELSE Returned(BuildEstimate(damage_type, confidence, bbox, area.value))

\* the DamageAnalyzer as __init__ leaves it: the tables its methods read
Analyzer0 ==
    [repair_costs |-> repair_costs,
     repair_times |-> repair_times,
     priority_matrix |-> priority_matrix]

\* a slip: the row of priority_matrix, which the estimate holds, annotated in
\* place with the damage type
SelfAfterAnalyze_RowAnnotated(self, outcome) ==
    IF outcome.status = "returned"
    THEN [self EXCEPT !.priority_matrix[outcome.value.severity] =
             [damage_type |-> outcome.value.damage_type] @@ @]
    ELSE self

\* the analyzer after a call of analyze_single_damage: the method assigns to
\* no attribute of self and to no entry of a table
SelfAfterAnalyze(self, outcome) == self

\* analyze_single_damage called on the analyzer self: the estimate's priority
\* is the row self.priority_matrix[severity] itself (line 133)
AnalyzeOn(self, detection, image_shape) ==
    LET outcome == analyze_single_damage(detection, image_shape)
    IN  IF outcome.status = "returned"
        THEN Returned([outcome.value EXCEPT
                          !.priority = self.priority_matrix[outcome.value.severity]])
        ELSE outcome

(***************************************************************************)
(* Aggregator: DamageAnalyzer.generate_area_summary and its helpers.       *)
(* The wall clock datetime.now() is the day `now`, counted from            *)
(* 2026-01-01 (day 0, a Thursday); dates are day numbers.                  *)
(***************************************************************************)
RECURSIVE SumSeq(_)
\* sum(xs)
SumSeq(xs) == IF xs = <<>> THEN 0 ELSE Head(xs) + SumSeq(Tail(xs))

RECURSIVE MaxSeq(_)
\* max(xs) of a non-empty list
MaxSeq(xs) == IF Len(xs) = 1 THEN xs[1] ELSE Max(Head(xs), MaxSeq(Tail(xs)))

\* [d[field] for d in xs]
Pluck(xs, field) == [i \in 1..Len(xs) |-> xs[i][field]]

\* the dict of counts built by counts[k] = counts.get(k, 0) + 1 over the keys ks
CountBy(ks) ==
    [k \in {ks[i] : i \in 1..Len(ks)} |-> Cardinality({i \in 1..Len(ks) : ks[i] = k})]

\* sum(1 for d in xs if d[field] == v), xs.count(v)
CountOf(xs, field, v) == Cardinality({i \in 1..Len(xs) : xs[i][field] = v})

\* start_date.strftime('%Y-W%U'): the year and the Sunday-first week of the year
WeekKey(day) ==
    LET year == 2026 + (day \div 365)
        yday == day % 365
        wday == (4 + day) % 7
    IN  <<year, (yday + 7 - wday) \div 7>>

\* a slip: the urgent phase rounded up to whole days instead of down
calculate_project_timeline_UrgentRoundedUp(all_damages) ==
    LET priority_groups ==
            [p \in 1..4 |-> SelectSeq(all_damages, LAMBDA d : d.priority.level = p)]
        days(p) == Pluck(priority_groups[p], "repair_days")
        immediate == IF priority_groups[1] # <<>> THEN MaxSeq(days(1)) ELSE 0
        urgent == CeilDiv(SumSeq(days(2)), 2)
        scheduled == SumSeq(days(3)) \div 3
        preventive == SumSeq(days(4)) \div 4
        total_days == immediate + urgent + scheduled + preventive
    IN  [immediate_phase |->
            [damages |-> priority_groups[1], duration_days |-> immediate,
             description |-> "Critical repairs - safety hazards"],
         urgent_phase |->
            [damages |-> priority_groups[2], duration_days |-> urgent,
             description |-> "Urgent repairs - prevent deterioration"],
         scheduled_phase |->
            [damages |-> priority_groups[3], duration_days |-> scheduled,
             description |-> "Scheduled maintenance"],
         preventive_phase |->
            [damages |-> priority_groups[4], duration_days |-> preventive,
             description |-> "Preventive maintenance"],
         total_days |-> Max(total_days, 1)]

\* calculate_project_timeline(self, all_damages)
calculate_project_timeline(all_damages) ==
    LET priority_groups ==
            [p \in 1..4 |-> SelectSeq(all_damages, LAMBDA d : d.priority.level = p)]
        days(p) == Pluck(priority_groups[p], "repair_days")
        immediate == IF priority_groups[1] # <<>> THEN MaxSeq(days(1)) ELSE 0
        urgent == SumSeq(days(2)) \div 2
        scheduled == SumSeq(days(3)) \div 3
        preventive == SumSeq(days(4)) \div 4
        total_days == immediate + urgent + scheduled + preventive
    IN  [immediate_phase |->
            [damages |-> priority_groups[1], duration_days |-> immediate,
             description |-> "Critical repairs - safety hazards"],
         urgent_phase |->
            [damages |-> priority_groups[2], duration_days |-> urgent,
             description |-> "Urgent repairs - prevent deterioration"],
         scheduled_phase |->
            [damages |-> priority_groups[3], duration_days |-> scheduled,
             description |-> "Scheduled maintenance"],
         preventive_phase |->
            [damages |-> priority_groups[4], duration_days |-> preventive,
             description |-> "Preventive maintenance"],
         total_days |-> Max(total_days, 1)]

\* categories[k] += repair_cost * share over the estimates in list order, as
\* floats; the share is a literal with two decimals
BudgetCategoryOf(costs, share) ==
    FloatSum([i \in 1..Len(costs) |-> FloatMul(costs[i], share)], <<>>)

\* the repair costs of the estimates as floats
CostFloats(all_damages) ==
    [i \in 1..Len(all_damages) |-> FloatOfHundredths(all_damages[i].repair_cost)]

\* categories[k] of the share given in hundredths
BudgetCategory(all_damages, share) ==
    BudgetCategoryOf(CostFloats(all_damages), FloatOfHundredths(share))

\* round(categories[k], 2) in hundredths.  The float differs from the exact
\* sum (here in twentieths of a hundredth, the share being twentieths / 20) by
\* less than 2^-30, so it is rounded as the exact sum is unless that lies
\* halfway between two hundredths: the error the additions left then decides
BudgetAmount(all_damages, twentieths) ==
    LET exact == SumSeq([i \in 1..Len(all_damages) |->
                            all_damages[i].repair_cost * twentieths])
    IN  IF exact % 20 # 10 THEN (exact + 10) \div 20
        ELSE FloatRound2(BudgetCategory(all_damages, 5 * twentieths))

\* round(total / max(sum(d['area_sqm'] for d in all_damages), 1), 2) in
\* hundredths, total being the float sum of the five categories.  The float
\* quotient differs from the exact one of the sums (hundredths) by less than
\* 2^-30 and is rounded as it is, unless that lies halfway between two
\* hundredths: the errors of the sums and of the division then decide
CostPerSqm(all_damages, shares) ==
    LET total == SumSeq(Pluck(all_damages, "repair_cost"))
        area == Max(SumSeq(Pluck(all_damages, "area_sqm")), 100)
        r == ((total % area) * 100) % area
        costs == CostFloats(all_damages)
        float_total ==
            FloatSum([k \in 1..Len(shares) |->
                         BudgetCategoryOf(costs, FloatOfHundredths(shares[k]))], <<>>)
        float_sum == FloatSum([i \in 1..Len(all_damages) |->
                                  FloatOfHundredths(all_damages[i].area_sqm)], <<>>)
        float_area == IF BigCmp(float_sum, FloatOfHundredths(100)) < 0
                      THEN FloatOfHundredths(100) ELSE float_sum
    IN  IF 2 * r # area THEN RoundMulDiv(total, 100, area, 25)
        ELSE FloatRound2(FloatDiv(float_total, float_area))

\* a slip: a contingency share of 0.10, the shares adding to 105%
generate_budget_breakdown_ContingencyTen(all_damages) ==
    LET total == SumSeq(Pluck(all_damages, "repair_cost"))
                 + BudgetAmount(all_damages, 1)
    IN  [categories |->
            [materials |-> BudgetAmount(all_damages, 8),
             labor |-> BudgetAmount(all_damages, 7),
             equipment |-> BudgetAmount(all_damages, 3),
             traffic_control |-> BudgetAmount(all_damages, 1),
             contingency |-> BudgetAmount(all_damages, 2)],
         total_budget |-> total,
         cost_per_sqm_average |-> CostPerSqm(all_damages, <<40, 35, 15, 5, 10>>)]

\* generate_budget_breakdown(self, all_damages): the categories accumulate
\* repair_cost * 0.4, 0.35, 0.15, 0.05 and 0.05 and are rounded to hundredths;
\* total is the float sum of the five categories, which is the sum of the
\* costs (a whole number of hundredths) but for an error under 2^-30
generate_budget_breakdown(all_damages) ==
    LET total == SumSeq(Pluck(all_damages, "repair_cost"))
    IN  [categories |->
            [materials |-> BudgetAmount(all_damages, 8),
             labor |-> BudgetAmount(all_damages, 7),
             equipment |-> BudgetAmount(all_damages, 3),
             traffic_control |-> BudgetAmount(all_damages, 1),
             contingency |-> BudgetAmount(all_damages, 1)],
         total_budget |-> total,
         cost_per_sqm_average |-> CostPerSqm(all_damages, <<40, 35, 15, 5, 5>>)]

\* calculate_total_resources(self, all_damages)
calculate_total_resources(all_damages) ==
    LET max_crew == IF all_damages # <<>>
                    THEN MaxSeq([i \in 1..Len(all_damages) |-> all_damages[i].crew_size.total])
                    ELSE 0
        all_equipment ==
            UNION {{d.equipment_needed[j] : j \in 1..Len(d.equipment_needed)} :
                   d \in {all_damages[i] : i \in 1..Len(all_damages)}}
        all_materials == {all_damages[i].materials_needed : i \in 1..Len(all_damages)}
    IN  [peak_crew_size |-> max_crew,
         total_equipment_types |-> Cardinality(all_equipment),
         equipment_list |-> all_equipment,
         material_types |-> all_materials,
         estimated_trucks_needed |-> CeilDiv(Len(all_damages), 5),
         storage_requirements |-> IF Len(all_damages) > 10 THEN "Medium" ELSE "Small"]

\* a slip: the rehabilitation plan recommended from 10 estimates on
generate_recommendations_PlanningFromTen(all_damages, area_name) ==
    LET critical_count == CountOf(all_damages, "severity", "critical")
        severe_count == CountOf(all_damages, "severity", "severe")
        alligator_count == CountOf(all_damages, "damage_type", "D20_Alligator_Crack")
    IN  (IF critical_count > 0
         THEN <<[priority |-> "IMMEDIATE",
                 action |-> <<"Address", critical_count, "critical damage(s) within 24-48 hours">>,
                 reason |-> "Safety hazard - risk of accidents or further deterioration"]>>
         ELSE <<>>)
        \o
        (IF severe_count > 0
         THEN <<[priority |-> "URGENT",
                 action |-> <<"Schedule", severe_count, "severe repair(s) within 1-2 weeks">>,
                 reason |-> "Prevent escalation to critical condition"]>>
         ELSE <<>>)
        \o
        (IF alligator_count > 2
         THEN <<[priority |-> "STRATEGIC",
                 action |-> <<"Consider full section overlay due to multiple alligator cracks">>,
                 reason |-> "Multiple alligator cracks indicate structural issues"]>>
         ELSE <<>>)
        \o
        (IF Len(all_damages) >= 10
         THEN <<[priority |-> "PLANNING",
                 action |-> <<"Develop comprehensive rehabilitation plan">>,
                 reason |-> "High damage density suggests systematic approach needed"]>>
         ELSE <<>>)
        \o
        <<[priority |-> "PREVENTIVE",
           action |-> <<"Implement regular inspection schedule every 6 months">>,
           reason |-> "Early detection prevents costly major repairs"]>>

\* generate_recommendations(self, all_damages, area_name)
generate_recommendations(all_damages, area_name) ==
    LET critical_count == CountOf(all_damages, "severity", "critical")
        severe_count == CountOf(all_damages, "severity", "severe")
        alligator_count == CountOf(all_damages, "damage_type", "D20_Alligator_Crack")
    IN  (IF critical_count > 0
         THEN <<[priority |-> "IMMEDIATE",
                 action |-> <<"Address", critical_count, "critical damage(s) within 24-48 hours">>,
                 reason |-> "Safety hazard - risk of accidents or further deterioration"]>>
         ELSE <<>>)
        \o
        (IF severe_count > 0
         THEN <<[priority |-> "URGENT",
                 action |-> <<"Schedule", severe_count, "severe repair(s) within 1-2 weeks">>,
                 reason |-> "Prevent escalation to critical condition"]>>
         ELSE <<>>)
        \o
        (IF alligator_count > 2
         THEN <<[priority |-> "STRATEGIC",
                 action |-> <<"Consider full section overlay due to multiple alligator cracks">>,
                 reason |-> "Multiple alligator cracks indicate structural issues"]>>
         ELSE <<>>)
        \o
        (IF Len(all_damages) > 10
         THEN <<[priority |-> "PLANNING",
                 action |-> <<"Develop comprehensive rehabilitation plan">>,
                 reason |-> "High damage density suggests systematic approach needed"]>>
         ELSE <<>>)
        \o
        <<[priority |-> "PREVENTIVE",
           action |-> <<"Implement regular inspection schedule every 6 months">>,
           reason |-> "Early detection prevents costly major repairs"]>>

\* the day offset create_maintenance_schedule gives a priority level
ScheduleOffset(priority_level) ==
    IF priority_level = 1 THEN 1
    ELSE IF priority_level = 2 THEN 7
    ELSE IF priority_level = 3 THEN 30
    ELSE 90

\* create_maintenance_schedule(self, all_damages), with now = datetime.now()
create_maintenance_schedule(all_damages, now) ==
    LET week_key(d) == WeekKey(now + ScheduleOffset(d.priority.level))
        entry(d) == [damage_type |-> d.damage_type,
                     severity |-> d.severity,
                     estimated_duration |-> d.repair_days,
                     cost |-> d.repair_cost,
                     crew_size |-> d.crew_size.total]
    IN  [k \in {week_key(all_damages[i]) : i \in 1..Len(all_damages)} |->
            LET scheduled == SelectSeq(all_damages, LAMBDA d : week_key(d) = k)
            IN  [i \in 1..Len(scheduled) |-> entry(scheduled[i])]]

\* get_mitigation_strategies(self, risk_level, all_damages)
get_mitigation_strategies(risk_level, all_damages) ==
    IF risk_level \in {"VERY HIGH", "HIGH"}
    THEN <<"Implement immediate traffic control measures",
           "Post warning signs for hazardous areas",
           "Consider temporary road closure if necessary",
           "Expedite critical repairs",
           "Increase inspection frequency">>
    ELSE IF risk_level = "MEDIUM"
    THEN <<"Schedule repairs within recommended timeframes",
           "Monitor high-risk areas weekly",
           "Prepare contingency repair materials",
           "Plan traffic management during repairs">>
    ELSE <<"Continue regular monitoring",
           "Schedule preventive maintenance",
           "Document baseline conditions">>

\* get_monitoring_frequency(self, risk_level)
get_monitoring_frequency(risk_level) ==
    LET frequencies == [x \in {"VERY HIGH", "HIGH", "MEDIUM", "LOW"} |->
                           CASE x = "VERY HIGH" -> "Weekly"
                             [] x = "HIGH" -> "Bi-weekly"
                             [] x = "MEDIUM" -> "Monthly"
                             [] x = "LOW" -> "Quarterly"]
    IN  DictGet(frequencies, risk_level, "Quarterly")

\* a slip: a severe estimate weighed as a moderate one
RiskWeight_SevereAsModerate(d) ==
    IF d.severity = "critical" THEN 4
    ELSE IF d.severity = "severe" THEN 2
    ELSE IF d.severity = "moderate" THEN 2
    ELSE 1

\* the weight assess_overall_risk adds to risk_score for one estimate
RiskWeight(d) ==
    IF d.severity = "critical" THEN 4
    ELSE IF d.severity = "severe" THEN 3
    ELSE IF d.severity = "moderate" THEN 2
    ELSE 1

\* a slip: the slice taken as risk_factors[:6]
FirstFive_FirstSix(xs) == SubSeq(xs, 1, IF Len(xs) < 6 THEN Len(xs) ELSE 6)

\* risk_factors[:5]
FirstFive(xs) == SubSeq(xs, 1, IF Len(xs) < 5 THEN Len(xs) ELSE 5)

\* assess_overall_risk(self, all_damages, area_name)
assess_overall_risk(all_damages, area_name) ==
    IF all_damages = <<>>
    THEN [risk_level |-> "LOW",
          risk_score |-> 1,
          factors |-> <<"No damage detected">>,
          mitigation |-> <<"Continue regular monitoring">>]
    ELSE LET risk_score == SumSeq([i \in 1..Len(all_damages) |-> RiskWeight(all_damages[i])])
             risky == SelectSeq(all_damages,
                                LAMBDA d : d.severity \in {"critical", "severe"})
             risk_factors ==
                 [i \in 1..Len(risky) |->
                     <<IF risky[i].severity = "critical" THEN "Critical" ELSE "Severe",
                       risky[i].damage_type>>]
             risk_level == IF risk_score >= 15 THEN "VERY HIGH"
                           ELSE IF risk_score >= 10 THEN "HIGH"
                           ELSE IF risk_score >= 5 THEN "MEDIUM"
                           ELSE "LOW"
         IN  [risk_level |-> risk_level,
              risk_score |-> risk_score,
              factors |-> FirstFive(risk_factors),
              mitigation |-> get_mitigation_strategies(risk_level, all_damages),
              monitoring_frequency |-> get_monitoring_frequency(risk_level)]

\* generate_clean_area_report(self, area_name, total_images)
generate_clean_area_report(area_name, total_images, now) ==
    [area_name |-> area_name,
     survey_date |-> now,
     overall_condition |-> "EXCELLENT",
     condition_description |-> "No damage detected - road in excellent condition",
     summary_statistics |->
        [total_images_surveyed |-> total_images,
         damaged_locations |-> 0,
         damage_rate_percentage |-> 0,
         total_damaged_area_sqm |-> 0,
         total_repair_cost_usd |-> 0,
         total_repair_time_hours |-> 0,
         estimated_project_duration_days |-> 0],
     recommendations |-> <<"Continue regular monitoring",
                           "Schedule preventive maintenance in 6-12 months",
                           "Monitor for early signs of wear",
                           "Maintain current maintenance practices">>,
     next_inspection |-> now + 180,
     maintenance_schedule |->
        [preventive_sealing |-> "12-18 months",
         crack_monitoring |-> "6 months",
         surface_treatment |-> "3-5 years"]]

\* a slip: POOR from 2 severe estimates on (severe_count >= 2)
OverallCondition_TwoSevere(critical_count, severe_count, n_damages) ==
    IF critical_count > 0
    THEN [overall_condition |-> "CRITICAL", condition_description |-> "Immediate attention required"]
    ELSE IF severe_count >= 2
    THEN [overall_condition |-> "POOR", condition_description |-> "Urgent repairs needed"]
    ELSE IF severe_count > 0 \/ n_damages > 5
    THEN [overall_condition |-> "FAIR", condition_description |-> "Scheduled maintenance required"]
    ELSE [overall_condition |-> "GOOD", condition_description |-> "Minor maintenance needed"]

\* the overall condition generate_area_summary decides for a non-empty list
OverallCondition(critical_count, severe_count, n_damages) ==
    IF critical_count > 0
    THEN [overall_condition |-> "CRITICAL", condition_description |-> "Immediate attention required"]
    ELSE IF severe_count > 2
    THEN [overall_condition |-> "POOR", condition_description |-> "Urgent repairs needed"]
    ELSE IF severe_count > 0 \/ n_damages > 5
    THEN [overall_condition |-> "FAIR", condition_description |-> "Scheduled maintenance required"]
    ELSE [overall_condition |-> "GOOD", condition_description |-> "Minor maintenance needed"]

\* the report generate_area_summary builds for a non-empty list and
\* total_images # 0
DamagedAreaReport(area_name, all_damages, total_images, now) ==
    LET total_cost == SumSeq(Pluck(all_damages, "repair_cost"))
        total_time_hours == SumSeq(Pluck(all_damages, "repair_time_hours"))
        total_area == SumSeq(Pluck(all_damages, "area_sqm"))
        severity_counts == CountBy(Pluck(all_damages, "severity"))
        damage_type_counts == CountBy(Pluck(all_damages, "damage_type"))
        priority_counts == CountBy([i \in 1..Len(all_damages) |-> all_damages[i].priority.level])
        critical_count == DictGet(severity_counts, "critical", 0)
        severe_count == DictGet(severity_counts, "severe", 0)
        condition == OverallCondition(critical_count, severe_count, Len(all_damages))
        project_timeline == calculate_project_timeline(all_damages)
        recommendations == generate_recommendations(all_damages, area_name)
    IN  [area_name |-> area_name,
         survey_date |-> now,
         overall_condition |-> condition.overall_condition,
         condition_description |-> condition.condition_description,
         summary_statistics |->
            [total_images_surveyed |-> total_images,
             damaged_locations |-> Len(all_damages),
             damage_rate_percentage |-> RoundDiv(Len(all_damages) * 1000, total_images, 5),
             total_damaged_area_sqm |-> total_area,
             total_repair_cost_usd |-> total_cost,
             total_repair_time_hours |-> total_time_hours,
             estimated_project_duration_days |-> project_timeline.total_days],
         severity_breakdown |-> severity_counts,
         damage_type_breakdown |-> damage_type_counts,
         priority_breakdown |-> priority_counts,
         project_timeline |-> project_timeline,
         budget_breakdown |-> generate_budget_breakdown(all_damages),
         resource_requirements |-> calculate_total_resources(all_damages),
         recommendations |-> recommendations,
         maintenance_schedule |-> create_maintenance_schedule(all_damages, now),
         risk_assessment |-> assess_overall_risk(all_damages, area_name)]

\* a slip: no clean-area branch, the empty list aggregated like any other
generate_area_summary_NoCleanBranch(area_name, all_damages, total_images, now) ==
    IF total_images = 0
    THEN Raised("ZeroDivisionError")
    ELSE Returned(DamagedAreaReport(area_name, all_damages, total_images, now))

\* generate_area_summary(self, area_name, all_damages, total_images), with
\* now = datetime.now(); len(all_damages) / total_images raises
\* ZeroDivisionError when total_images is 0
generate_area_summary(area_name, all_damages, total_images, now) ==
    IF all_damages = <<>>
    THEN Returned(generate_clean_area_report(area_name, total_images, now))
    ELSE IF total_images = 0
    THEN Raised("ZeroDivisionError")
    ELSE Returned(DamagedAreaReport(area_name, all_damages, total_images, now))

(***************************************************************************)
(* Batch orchestrator: BatchRoadDamageProcessor.process_folder and its     *)
(* helpers.  A file of the input folder is a record of what the file       *)
(* system, OpenCV and the detector model do with it:                       *)
(*   filename     its name                                                 *)
(*   suffix_ok    the suffix is one of the valid image extensions          *)
(*   readable     cv2.imread decodes it                                    *)
(*   height       its height in pixels                                     *)
(*   gps          the <<lat, lon>> in its name, or <<>>                    *)
(*   inference    "ok" or "raises": what the model call does               *)
(*   boxes        the detections the model finds when it returns           *)
(*   copy         "ok" or "raises": what shutil.copy2 does                 *)
(*   annotate     whether save_detected_image succeeds                     *)
(***************************************************************************)
\* a slip: every file taken for an image
is_image_file_AnySuffix(file) == TRUE

\* is_image_file(self, filename)
is_image_file(file) == file.suffix_ok

\* ImageProcessor.get_image_info(image_path): None for an undecodable file
get_image_info(file) ==
    IF file.readable THEN [null |-> FALSE, height |-> file.height]
    ELSE [null |-> TRUE, height |-> 0]

\* extract_gps_from_filename(self, filename); an optional number is <<>> for
\* None and <<x>> for x
extract_gps_from_filename(file) ==
    IF file.gps = <<>> THEN [lat |-> <<>>, lon |-> <<>>]
    ELSE [lat |-> <<file.gps[1]>>, lon |-> <<file.gps[2]>>]

\* the detector's answer for an image nothing was found in, also its answer
\* when there is no model and when loading or inference raised
NoDetections ==
    [detections |-> <<>>, damage_types |-> {}, confidence_scores |-> <<>>]

\* DamageDetector.detect_damage(self, image_path, confidence_threshold);
\* `calls` is the number of calls of the model it made
detect_damage(file, model_loaded) ==
    IF ~model_loaded
    THEN [value |-> NoDetections, calls |-> 0]
    ELSE IF ~file.readable
    THEN [value |-> NoDetections, calls |-> 0]
    ELSE IF file.inference = "raises"
    THEN [value |-> NoDetections, calls |-> 1]
    ELSE [value |->
             [detections |-> file.boxes,
              damage_types |-> {file.boxes[j].damage_type : j \in 1..Len(file.boxes)},
              confidence_scores |-> Pluck(file.boxes, "confidence")],
          calls |-> 1]

\* a slip: the error added to the result built so far, has_damage included
ErrorRecord_KeepsHasDamage(file, error) ==
    [error |-> error, filename |-> file.filename, has_damage |-> file.boxes # <<>>]

\* the record process_single_image returns for an image it failed on
ErrorRecord(file, error) == [error |-> error, filename |-> file.filename]

\* the first estimate of the highest severity: max(detailed_damages, key=index)
MostSevere(detailed_damages) ==
    LET top == MaxSeq([j \in 1..Len(detailed_damages) |->
                          SeverityRank(detailed_damages[j].severity)])
        first == CHOOSE j \in 1..Len(detailed_damages) :
                    /\ SeverityRank(detailed_damages[j].severity) = top
                    /\ \A k \in 1..(j - 1) :
                          SeverityRank(detailed_damages[k].severity) < top
    IN  detailed_damages[first].severity

\* min(d['priority']['level'] for d in detailed_damages)
HighestPriority(detailed_damages) ==
    CHOOSE l \in 1..4 :
        /\ \E j \in 1..Len(detailed_damages) : detailed_damages[j].priority.level = l
        /\ \A j \in 1..Len(detailed_damages) : detailed_damages[j].priority.level >= l

\* process_single_image(self, image_path, output_prefix): the result record,
\* with what the call did on the way: the files it wrote (copies, as
\* <<directory, base name>>), the model calls it made (calls) and the
\* estimates analyze_single_damage returned to it (estimates)
process_single_image(file, output_prefix, model_loaded, now) ==
    LET image_info == get_image_info(file)
        gps == extract_gps_from_filename(file)
        detected == detect_damage(file, model_loaded)
        detections == detected.value
        has_damage == Len(detections.detections) > 0
        base_name == IF output_prefix # "None"
                     THEN <<output_prefix, file.filename>>
                     ELSE <<file.filename>>
        result ==
            [original_path |-> file.filename,
             filename |-> file.filename,
             has_damage |-> has_damage,
             damage_count |-> Len(detections.detections),
             damage_types |-> detections.damage_types,
             confidence_scores |-> detections.confidence_scores,
             detections |-> detections.detections,
             latitude |-> gps.lat,
             longitude |-> gps.lon,
             image_info |-> image_info,
             timestamp |-> now]
        analyses == [j \in 1..Len(detections.detections) |->
                        analyze_single_damage(detections.detections[j], image_info.height)]
        detailed_damages == [j \in 1..Len(analyses) |-> analyses[j].value]
        analysed ==
            [detailed_damage_analysis |-> detailed_damages,
             total_repair_cost |-> SumSeq(Pluck(detailed_damages, "repair_cost")),
             total_repair_time_hours |-> SumSeq(Pluck(detailed_damages, "repair_time_hours")),
             highest_priority |-> HighestPriority(detailed_damages),
             most_severe |-> MostSevere(detailed_damages)]
        damaged_paths ==
            [damaged_image_path |-> <<"damaged_images", base_name>>,
             thumbnail_path |-> <<"thumbnails", base_name>>]
        detected_path == [detected_image_path |-> <<"detected_images", base_name>>]
    IN  IF image_info.null
        THEN [result |-> [error |-> "Could not read image"],
              copies |-> <<>>, calls |-> 0, estimates |-> <<>>]
        ELSE IF \E j \in 1..Len(analyses) : analyses[j].status = "raised"
        THEN [result |-> ErrorRecord(file, "ValueError"),
              copies |-> <<>>, calls |-> detected.calls,
              estimates |-> SubSeq(detailed_damages, 1,
                              (CHOOSE j \in 1..Len(analyses) :
                                  /\ analyses[j].status = "raised"
                                  /\ \A k \in 1..(j - 1) : analyses[k].status # "raised") - 1)]
        ELSE IF file.copy = "raises"
        THEN [result |-> ErrorRecord(file, "OSError"),
              copies |-> <<>>, calls |-> detected.calls,
              estimates |-> detailed_damages]
        ELSE IF has_damage
        THEN [result |-> (IF file.annotate
                          THEN result @@ analysed @@ damaged_paths @@ detected_path
                          ELSE result @@ analysed @@ damaged_paths),
              copies |-> (IF file.annotate
                          THEN <<damaged_paths.damaged_image_path,
                                 detected_path.detected_image_path,
                                 damaged_paths.thumbnail_path>>
                          ELSE <<damaged_paths.damaged_image_path,
                                 damaged_paths.thumbnail_path>>),
              calls |-> detected.calls,
              estimates |-> detailed_damages]
        ELSE [result |-> result @@ [clean_image_path |-> <<"clean_images", base_name>>],
              copies |-> <<<<"clean_images", base_name>>>>,
              calls |-> detected.calls,
              estimates |-> <<>>]

\* a quotient left as a float: the fraction num / den
Fraction(num, den) == [num |-> num, den |-> den]

\* generate_summary_report(self, results, flight_name, input_folder)
generate_summary_report(results, flight_name, input_folder, confidence_threshold, now) ==
    LET total_images == Len(results)
        damaged == SelectSeq(results, LAMBDA r : DictGet(r, "has_damage", FALSE))
        damaged_count == Len(damaged)
        clean_count == Len(SelectSeq(results, LAMBDA r : "clean_image_path" \in DOMAIN r))
        error_count == Len(SelectSeq(results, LAMBDA r : "error" \in DOMAIN r))
        types == UNION {DictGet(damaged[k], "damage_types", {}) : k \in 1..Len(damaged)}
        damage_type_stats ==
            [t \in types |->
                Cardinality({k \in 1..Len(damaged) :
                                t \in DictGet(damaged[k], "damage_types", {})})]
        total_damages == SumSeq([k \in 1..Len(damaged) |-> DictGet(damaged[k], "damage_count", 0)])
        score_sum == SumSeq([k \in 1..Len(damaged) |->
                                SumSeq(DictGet(damaged[k], "confidence_scores", <<>>))])
        score_count == SumSeq([k \in 1..Len(damaged) |->
                                Len(DictGet(damaged[k], "confidence_scores", <<>>))])
    IN  [flight_name |-> flight_name,
         input_folder |-> input_folder,
         processing_timestamp |-> now,
         total_images |-> total_images,
         damaged_count |-> damaged_count,
         clean_count |-> clean_count,
         error_count |-> error_count,
         damage_percentage |-> IF total_images > 0
                               THEN Fraction(damaged_count * 100, total_images)
                               ELSE Fraction(0, 1),
         clean_percentage |-> IF total_images > 0
                              THEN Fraction(clean_count * 100, total_images)
                              ELSE Fraction(0, 1),
         total_damages_detected |-> total_damages,
         damage_type_statistics |-> damage_type_stats,
         average_confidence |-> IF score_count > 0
                                THEN Fraction(score_sum, score_count)
                                ELSE Fraction(0, 1),
         confidence_threshold_used |-> confidence_threshold]

\* process_folder, lines 226-230: damage['source_image'] = ... and
\* damage['gps_location'] = ... assign into the estimate dict itself
TagDamage(damage, result) ==
    [k \in DOMAIN damage \cup {"source_image", "gps_location"} |->
        CASE k = "source_image" -> result.filename
          [] k = "gps_location" ->
                [latitude |-> DictGet(result, "latitude", <<>>),
                 longitude |-> DictGet(result, "longitude", <<>>)]
          [] OTHER -> damage[k]]

\* whether process_folder takes the estimates of a result (line 224)
HasDetailedDamages(result) ==
    DictGet(result, "has_damage", FALSE) /\ "detailed_damage_analysis" \in DOMAIN result

\* a result after the loop of lines 223-231: its estimates are the dicts the
\* loop assigned into
TagResult(result) ==
    IF HasDetailedDamages(result)
    THEN [result EXCEPT !.detailed_damage_analysis =
             [j \in 1..Len(result.detailed_damage_analysis) |->
                 TagDamage(result.detailed_damage_analysis[j], result)]]
    ELSE result

RECURSIVE Flatten(_)
\* the concatenation of a list of lists
Flatten(xss) == IF xss = <<>> THEN <<>> ELSE Head(xss) \o Flatten(Tail(xss))

\* a slip: the first estimate of each damaged image only
AllDetailedDamages_FirstOnly(results) ==
    Flatten([k \in 1..Len(results) |->
                IF HasDetailedDamages(results[k])
                THEN SubSeq(TagResult(results[k]).detailed_damage_analysis, 1, 1)
                ELSE <<>>])

\* all_detailed_damages as lines 222-231 build it
AllDetailedDamages(results) ==
    Flatten([k \in 1..Len(results) |->
                IF HasDetailedDamages(results[k])
                THEN TagResult(results[k]).detailed_damage_analysis
                ELSE <<>>])

\* a slip: files that cannot be decoded skipped by the scan
ImageFiles_ReadableOnly(files) ==
    SelectSeq(files, LAMBDA f : is_image_file(f) /\ f.readable)

\* os.walk(input_folder) filtered by is_image_file, in scan order
ImageFiles(files) == SelectSeq(files, is_image_file)

(***************************************************************************)
(* The detections the estimator is called on.                              *)
(***************************************************************************)
\* pixel coordinates of well-formed boxes: sides of 0 (degenerate) to 266
\* pixels, areas from 0.0256 m^2 to 7.0756 m^2 on both sides of 0.5, 1.0, 2.0
\* and 5.0 m^2, with 1.0, 2.0 and 5.0 m^2 themselves
Coords == {0, 16, 100, 200, 266}
\* coordinates of the lists that are too short or too long
PadCoords == {0, 100}
\* confidences in hundredths, on both sides of 0.4, 0.6 and 0.8
Confidences == {30, 40, 59, 60, 79, 80, 85}
\* a damage_type that is no key of the tables
UnknownTypes == {"D50_Rutting"}
ImageShapes == {480, 640}

BBoxLists ==
    [1..4 -> Coords] \cup UNION {[1..n -> PadCoords] : n \in (0..MaxBBoxLen) \ {4}}

BBoxValues == {NoneBBox} \cup {ListBBox(c) : c \in BBoxLists}

\* a detection dict: each of the three keys present or absent
MakeDetection(keys, damage_type, confidence, bbox) ==
    [k \in keys |->
        CASE k = "damage_type" -> damage_type
          [] k = "confidence" -> confidence
          [] k = "bbox" -> bbox]

\* the first sample detection of the demonstration report
DemoPothole ==
    MakeDetection({"damage_type", "confidence", "bbox"}, "D40_Pothole", 85,
                  ListBBox(<<100, 150, 180, 220>>))

Detections ==
    {DemoPothole}
    \cup
    {MakeDetection(keys, t, c, b) :
        keys \in {{"damage_type", "confidence", "bbox"}},
        t \in DamageTypes \cup UnknownTypes, c \in Confidences, b \in BBoxValues}
    \cup
    {MakeDetection(keys, "D40_Pothole", 85, ListBBox(<<0, 0, 266, 100>>)) :
        keys \in SUBSET {"damage_type", "confidence", "bbox"}}
    \cup
    {MakeDetection({"damage_type", "confidence"}, t, c, NoneBBox) :
        t \in DamageTypes \cup UnknownTypes, c \in Confidences}

\* the detections whose estimates are summarised: one per severity
SummaryDetections ==
    {MakeDetection({"damage_type", "confidence", "bbox"}, "D40_Pothole", 85,
                   ListBBox(<<0, 0, 266, 100>>)),
     MakeDetection({"damage_type", "confidence", "bbox"}, "D40_Pothole", 85,
                   ListBBox(<<100, 200, 200, 100>>)),
     MakeDetection({"damage_type", "confidence", "bbox"}, "D00_Longitudinal_Crack", 60,
                   ListBBox(<<0, 0, 200, 266>>)),
     MakeDetection({"damage_type", "confidence", "bbox"}, "D20_Alligator_Crack", 30,
                   ListBBox(<<0, 0, 16, 16>>))}

AreaNames == {"Highway A1 - Section 5"}

\* datetime.now(): 2026-11-05, and 2026-12-20 (a start date 30 days on is in 2027)
Nows == {308, 353}

\* the empty dict
EmptyDict == MakeDetection({}, "Unknown", DefaultConfidence, NoneBBox)

(***************************************************************************)
(* The folders process_folder is called on.                                *)
(***************************************************************************)
\* what the detector returns for one box (damage_detector.py, lines 92-97)
Box(damage_type, class_id, confidence, coords) ==
    [bbox |-> ListBBox(coords), confidence |-> confidence,
     damage_type |-> damage_type, class_id |-> class_id]

\* a file of the folder, before it is named
FileKind(suffix_ok, readable, gps, inference, boxes, copy, annotate) ==
    [suffix_ok |-> suffix_ok, readable |-> readable, height |-> 640, gps |-> gps,
     inference |-> inference, boxes |-> boxes, copy |-> copy, annotate |-> annotate]

\* a text file; an undecodable image; an image the model call raises on; an
\* image with no damage; one with a severe pothole and GPS in its name; one
\* with a critical pothole and a minor alligator crack that cannot be
\* annotated; one with a moderate crack that cannot be copied
FileKinds ==
    {FileKind(FALSE, FALSE, <<>>, "ok", <<>>, "ok", TRUE),
     FileKind(TRUE, FALSE, <<>>, "ok", <<>>, "ok", TRUE),
     FileKind(TRUE, TRUE, <<>>, "raises", <<>>, "ok", TRUE),
     FileKind(TRUE, TRUE, <<>>, "ok", <<>>, "ok", TRUE),
     FileKind(TRUE, TRUE, <<40, -74>>, "ok",
              <<Box("D40_Pothole", 0, 85, <<100, 200, 200, 100>>)>>, "ok", TRUE),
     FileKind(TRUE, TRUE, <<>>, "ok",
              <<Box("D40_Pothole", 0, 85, <<0, 0, 266, 100>>),
                Box("D20_Alligator_Crack", 3, 30, <<0, 0, 16, 16>>)>>, "ok", FALSE),
     FileKind(TRUE, TRUE, <<>>, "ok",
              <<Box("D00_Longitudinal_Crack", 1, 60, <<0, 0, 200, 266>>)>>, "raises", TRUE)}

\* the k-th file of a folder
NamedFile(kind, k) == kind @@ [filename |-> <<"image", k>>]

MissingFolder == [exists |-> FALSE, files |-> <<>>]

\* a folder that does not exist, or one of up to MaxFiles files
Folders ==
    {MissingFolder} \cup
    UNION {{[exists |-> TRUE, files |-> [k \in 1..n |-> NamedFile(kinds[k], k)]] :
               kinds \in [1..n -> FileKinds]} : n \in 0..MaxFiles}

FlightNames == {"None", "Survey 12"}

\* self.confidence_threshold, in hundredths
ConfidenceThreshold == 30

(***************************************************************************)
(* State.                                                                  *)
(***************************************************************************)
VARIABLES
    detection,     \* the detection dict analyze_single_damage was last called on
    image_shape,   \* its image_shape argument
    result,        \* the outcome of that call: an estimate, or an exception
    all_damages,   \* the estimates collected for generate_area_summary
    area_name,     \* its area_name argument
    total_images,  \* its total_images argument
    clock,         \* datetime.now()
    report,        \* the outcome of generate_area_summary
    input_folder,  \* the folder process_folder is called on
    flight_name,   \* its flight_name argument
    model_loaded,  \* whether self.detector.model is a model (not None)
    current_area_name, \* self.current_area_name
    pc,            \* where process_folder is: "start", "loop", "done", "aborted"
    image_files,   \* the image files found, in scan order
    results,       \* the result of each image processed so far
    damaged_images, \* the results with has_damage
    clean_images,  \* the results with a clean_image_path
    copied,        \* the files written to the output directories, in order
    model_calls,   \* how many times the detector model was called
    produced,      \* per image, the estimates as analyze_single_damage returned them
    summary,       \* the summary of generate_summary_report
    report_file,   \* the JSON report written
    outcome,       \* what process_folder returned or raised
    analyzer,      \* the tables of the DamageAnalyzer
    again,         \* the outcome of a second call on the same detection
    requests       \* the batch uploads served by the one processor of app.py

estimatorVars == <<detection, image_shape, result>>
summaryVars == <<all_damages, area_name, total_images, clock, report>>
batchVars == <<input_folder, flight_name, model_loaded, current_area_name, pc,
               image_files, results, damaged_images, clean_images, copied,
               model_calls, produced, summary, report_file, outcome>>

repeatVars == <<analyzer, again>>

webVars == <<requests>>

vars == <<estimatorVars, summaryVars, batchVars, repeatVars, webVars>>

\* no batch upload is served
NoRequests == requests = <<>>

\* no call is repeated, and the analyzer is as constructed
NoRepeat ==
    /\ analyzer = Analyzer0
    /\ again = NotCalled

\* no batch is run
NoBatch ==
    /\ input_folder = MissingFolder
    /\ flight_name = "None"
    /\ model_loaded = TRUE
    /\ current_area_name = "None"
    /\ pc = "start"
    /\ image_files = <<>>
    /\ results = <<>>
    /\ damaged_images = <<>>
    /\ clean_images = <<>>
    /\ copied = <<>>
    /\ model_calls = 0
    /\ produced = <<>>
    /\ summary = NotCalled
    /\ report_file = NotCalled
    /\ outcome = NotCalled

(***************************************************************************)
(* Spec: analyze_single_damage called on one detection.                    *)
(***************************************************************************)
Init ==
    /\ detection \in Detections
    /\ image_shape \in ImageShapes
    /\ result = NotCalled
    /\ all_damages = <<>>
    /\ area_name \in AreaNames
    /\ total_images = 0
    /\ clock \in {308}
    /\ report = NotCalled
    /\ NoBatch
    /\ NoRepeat
    /\ NoRequests

AnalyzeSingleDamage ==
    /\ result.status = "none"
    /\ result' = analyze_single_damage(detection, image_shape)
    /\ UNCHANGED <<detection, image_shape, summaryVars, batchVars, repeatVars, webVars>>

Next == AnalyzeSingleDamage

Spec == Init /\ [][Next]_vars

(***************************************************************************)
(* SpecSummary: the estimates of a survey are collected one by one and     *)
(* generate_area_summary is called on the list.                            *)
(***************************************************************************)
InitSummary ==
    /\ detection = EmptyDict
    /\ image_shape \in {640}
    /\ result = NotCalled
    /\ all_damages = <<>>
    /\ area_name \in AreaNames
    /\ total_images = 0
    /\ clock \in Nows
    /\ report = NotCalled
    /\ NoBatch
    /\ NoRepeat
    /\ NoRequests

\* analysis = analyzer.analyze_single_damage(damage, image_shape)
\* detailed_analyses.append(analysis)
AppendAnalysis ==
    /\ report.status = "none"
    /\ Len(all_damages) < MaxDamages
    /\ \E d \in SummaryDetections :
          /\ detection' = d
          /\ result' = analyze_single_damage(d, image_shape)
          /\ result'.status = "returned"
          /\ all_damages' = Append(all_damages, result'.value)
    /\ UNCHANGED <<image_shape, area_name, total_images, clock, report, batchVars, repeatVars, webVars>>

\* area_analysis = analyzer.generate_area_summary(area_name, detailed_analyses, total_images)
GenerateAreaSummary ==
    /\ report.status = "none"
    /\ \E n \in 0..MaxImages :
          /\ total_images' = n
          /\ report' = generate_area_summary(area_name, all_damages, n, clock)
    /\ UNCHANGED <<estimatorVars, all_damages, area_name, clock, batchVars, repeatVars, webVars>>

NextSummary == AppendAnalysis \/ GenerateAreaSummary

SpecSummary == InitSummary /\ [][NextSummary]_vars

(***************************************************************************)
(* SpecBatch: process_folder called on a folder, one step for the scan,    *)
(* one per image of the loop, one for the aggregation and the report.      *)
(***************************************************************************)
InitBatch ==
    /\ detection = EmptyDict
    /\ image_shape \in {640}
    /\ result = NotCalled
    /\ all_damages = <<>>
    /\ area_name \in AreaNames
    /\ total_images = 0
    /\ clock \in {308}
    /\ report = NotCalled
    /\ input_folder \in Folders
    /\ flight_name \in FlightNames
    /\ model_loaded \in BOOLEAN
    /\ current_area_name = "None"
    /\ pc = "start"
    /\ image_files = <<>>
    /\ results = <<>>
    /\ damaged_images = <<>>
    /\ clean_images = <<>>
    /\ copied = <<>>
    /\ model_calls = 0
    /\ produced = <<>>
    /\ summary = NotCalled
    /\ report_file = NotCalled
    /\ outcome = NotCalled
    /\ NoRepeat
    /\ NoRequests

\* process_folder, lines 181-205: the checks and the scan
ScanFolder ==
    /\ pc = "start"
    /\ IF ~input_folder.exists
       THEN /\ outcome' = Raised("ValueError: Input folder does not exist")
            /\ pc' = "aborted"
            /\ UNCHANGED <<current_area_name, image_files>>
       ELSE /\ current_area_name' =
                  (IF area_name # "None" THEN area_name
                   ELSE IF flight_name # "None" THEN flight_name
                   ELSE "Unknown Area")
            /\ image_files' = ImageFiles(input_folder.files)
            /\ IF image_files' = <<>>
               THEN /\ outcome' = Raised("ValueError: No image files found in")
                    /\ pc' = "aborted"
               ELSE /\ outcome' = outcome
                    /\ pc' = "loop"
    /\ UNCHANGED <<repeatVars, webVars, estimatorVars, summaryVars, input_folder, flight_name, model_loaded,
                   results, damaged_images, clean_images, copied, model_calls,
                   produced, summary, report_file>>

\* process_folder, lines 207-216: one turn of the loop over image_files
ProcessImage ==
    /\ pc = "loop"
    /\ Len(results) < Len(image_files)
    /\ \E done \in {process_single_image(image_files[Len(results) + 1], flight_name,
                                          model_loaded, clock)} :
           /\ results' = Append(results, done.result)
           /\ IF DictGet(done.result, "has_damage", FALSE)
              THEN /\ damaged_images' = Append(damaged_images, done.result)
                   /\ clean_images' = clean_images
              ELSE IF "clean_image_path" \in DOMAIN done.result
              THEN /\ clean_images' = Append(clean_images, done.result)
                   /\ damaged_images' = damaged_images
              ELSE UNCHANGED <<damaged_images, clean_images>>
           /\ copied' = copied \o done.copies
           /\ model_calls' = model_calls + done.calls
           /\ produced' = Append(produced, done.estimates)
    /\ UNCHANGED <<repeatVars, webVars, estimatorVars, summaryVars, input_folder, flight_name, model_loaded,
                   current_area_name, pc, image_files, summary, report_file, outcome>>

\* process_folder, lines 218-265: the summary, the estimates gathered and
\* tagged, the area analysis, the report written and the value returned
Aggregate ==
    /\ pc = "loop"
    /\ Len(results) = Len(image_files)
    /\ summary' = Returned(generate_summary_report(results, flight_name, input_folder,
                                                   ConfidenceThreshold, clock))
    /\ results' = [k \in 1..Len(results) |-> TagResult(results[k])]
    /\ damaged_images' = [k \in 1..Len(damaged_images) |-> TagResult(damaged_images[k])]
    /\ all_damages' = AllDetailedDamages(results)
    /\ total_images' = Len(image_files)
    /\ report' = generate_area_summary(flight_name, all_damages', Len(image_files), clock)
    /\ IF report'.status = "raised"
       THEN /\ outcome' = report'
            /\ pc' = "aborted"
            /\ report_file' = report_file
       ELSE /\ report_file' =
                  Returned([path |-> <<"reports",
                                       IF flight_name # "None" THEN flight_name ELSE "survey",
                                       clock>>,
                            summary |-> summary'.value,
                            area_analysis |-> report'.value,
                            detailed_results |-> results'])
            /\ outcome' =
                  Returned([summary |-> summary'.value,
                            area_analysis |-> report'.value,
                            damaged_images |-> damaged_images',
                            clean_images |-> clean_images,
                            report_path |-> report_file'.value.path])
            /\ pc' = "done"
    /\ UNCHANGED <<repeatVars, webVars, estimatorVars, area_name, clock, input_folder, flight_name,
                   model_loaded, current_area_name, image_files, clean_images, copied,
                   model_calls, produced>>

NextBatch == ScanFolder \/ ProcessImage \/ Aggregate

SpecBatch == InitBatch /\ [][NextBatch]_vars

\* process_folder is one sequential call: each of its steps returns and the
\* next one is taken.  The fairness of ProcessImage is weak fairness with
\* ENABLED <<ProcessImage>>_vars written out as the guard of the action, which
\* is defined for every image file
FairProcessImage ==
    \/ []<>~(pc = "loop" /\ Len(results) < Len(image_files))
    \/ []<><<ProcessImage>>_vars

FairSpecBatch ==
    SpecBatch /\ WF_vars(ScanFolder) /\ WF_vars(Aggregate) /\ FairProcessImage

(***************************************************************************)
(* Properties of the estimate analyze_single_damage returns (Spec).        *)
(***************************************************************************)
Returns == result.status = "returned"

\* the area in cm^2 that analyze_single_damage computed for the bbox it used
UsedArea == calculate_damage_area(result.value.bbox, image_shape, PixelToMeterRatio).value

\* the rows of the cost and time tables for the estimate's type and severity
UsedCostPerM == RepairInfo(result.value.damage_type, result.value.severity).cost_per_m
UsedHoursPerM == RepairTime(result.value.damage_type, result.value.severity)

HighImpact == {"D20_Alligator_Crack", "D40_Pothole"}

\* field is exact / d rounded to the nearest unit
IsRounded(field, exact, d) == 2 * Abs(d * field - exact) <= d

\* C1 as stated: repair_days == ceil(repair_time_hours / 8) on the returned
\* fields, repair_time_hours being the hours rounded to one decimal
C1_DaysOfReportedHours ==
    Returns => result.value.repair_days = CeilDiv(result.value.repair_time_hours, 80)

\* C1 amended: repair_days is ceil(h / 8) of the unrounded time
\* h = area * hours_per_m2; against the reported hours it is
\* ceil(repair_time_hours / 8) or one more, never less
C1_DaysOfUnroundedHours ==
    Returns =>
        /\ result.value.repair_days = CeilDiv(UsedArea * UsedHoursPerM, 800000)
        /\ result.value.repair_days - CeilDiv(result.value.repair_time_hours, 80) \in {0, 1}
        /\ result.value.repair_time_hours >= 0

\* C1 witness: an estimate whose reported hours round down to 0.0 while the
\* repair still takes a day
C1_Witness ==
    /\ Returns
    /\ result.value.repair_time_hours = 0
    /\ result.value.repair_days = 1

\* C2 as stated: repair_cost equals the area_sqm field times cost_per_m, and
\* is never negative
C2_CostOfReportedArea ==
    Returns =>
        /\ result.value.repair_cost = result.value.area_sqm * UsedCostPerM
        /\ result.value.repair_cost >= 0

\* C2 amended: repair_cost is the unrounded bbox area times cost_per_m, rounded
\* to 2 decimals; it is never negative and differs from area_sqm * cost_per_m
\* by at most 0.005 * cost_per_m + 0.005
C2_CostOfUnroundedArea ==
    Returns =>
        /\ IsRounded(result.value.repair_cost, UsedArea * UsedCostPerM, 100)
        /\ result.value.repair_cost >= 0
        /\ 2 * Abs(result.value.repair_cost - result.value.area_sqm * UsedCostPerM)
              <= UsedCostPerM + 1

\* C2 witness: a reversed box (x2 < x1, y2 < y1) whose cost is positive and is
\* not the reported area times cost_per_m
C2_Witness ==
    /\ Returns
    /\ Len(result.value.bbox.coords) = 4
    /\ result.value.bbox.coords[3] < result.value.bbox.coords[1]
    /\ result.value.bbox.coords[4] < result.value.bbox.coords[2]
    /\ result.value.repair_cost > 0
    /\ result.value.repair_cost # result.value.area_sqm * UsedCostPerM

\* C3: analyze_single_damage never raises, whatever the bbox, damage_type and
\* confidence of the detection
C3_NeverRaises == result.status # "raised"

\* the detection has no usable bbox: no bbox key, null, or fewer than 4 coordinates
BBoxMissingOrShort ==
    \/ "bbox" \notin DOMAIN detection
    \/ detection["bbox"].null
    \/ Len(detection["bbox"].coords) < 4

\* C4: a detection whose bbox is missing or has fewer than 4 coordinates is
\* estimated with the nominal area 0.1 m^2: area_sqm = 0.1, cost and time
\* those of 0.1 m^2
C4_NominalArea ==
    (Returns /\ BBoxMissingOrShort) =>
        /\ result.value.area_sqm = 10
        /\ IsRounded(result.value.repair_cost, DefaultArea * UsedCostPerM, 100)
        /\ IsRounded(result.value.repair_time_hours, DefaultArea * UsedHoursPerM, 10000)
        /\ result.value.repair_days = CeilDiv(DefaultArea * UsedHoursPerM, 800000)

\* C5: a detection whose damage_type is no key of the tables does not fail and
\* gets cost_per_m, method, material and hours from the Pothole row at the
\* estimate's severity
C5_UnknownTypeUsesPothole ==
    (result.status # "none"
        /\ DictGet(detection, "damage_type", "Unknown") \notin DamageTypes) =>
        /\ Returns
        /\ IsRounded(result.value.repair_cost,
                     UsedArea * repair_costs["D40_Pothole"][result.value.severity].cost_per_m,
                     100)
        /\ result.value.repair_method
              = repair_costs["D40_Pothole"][result.value.severity].method
        /\ result.value.materials_needed
              = repair_costs["D40_Pothole"][result.value.severity].material
        /\ result.value.repair_days
              = CeilDiv(UsedArea * repair_times["D40_Pothole"][result.value.severity], 800000)

\* C5, the part that holds: whenever the call returns, an unknown damage_type
\* gets the Pothole row at the estimate's severity
C5_PotholeRowWhenReturned ==
    (Returns /\ result.value.damage_type \notin DamageTypes) =>
        /\ RepairInfo(result.value.damage_type, result.value.severity)
              = repair_costs["D40_Pothole"][result.value.severity]
        /\ result.value.repair_method
              = repair_costs["D40_Pothole"][result.value.severity].method
        /\ result.value.materials_needed
              = repair_costs["D40_Pothole"][result.value.severity].material
        /\ IsRounded(result.value.repair_time_hours,
                     UsedArea * repair_times["D40_Pothole"][result.value.severity], 10000)

\* C8: priority.level is decided by the severity alone: critical 1, severe 2,
\* moderate 3, minor 4, and no other level occurs
C8_PriorityLevelOfSeverity ==
    Returns =>
        /\ result.value.severity \in SeverityNames
        /\ result.value.priority.level =
              (CASE result.value.severity = "critical" -> 1
                 [] result.value.severity = "severe" -> 2
                 [] result.value.severity = "moderate" -> 3
                 [] result.value.severity = "minor" -> 4)

\* C8 witness: a critical estimate, of level 1
C8_Witness ==
    /\ Returns
    /\ result.value.severity = "critical"
    /\ result.value.priority.level = 1

\* C9: a high-impact type whose confidence bucket is minor (confidence < 0.6)
\* is moderate whenever the area exceeds 0.5 m^2, above 2.0 m^2 too
C9_MinorEscalatesAboveHalf ==
    (Returns
        /\ result.value.damage_type \in HighImpact
        /\ result.value.confidence < 60
        /\ UsedArea > 5000) =>
        result.value.severity = "moderate"

\* C10: a high-impact type with area above 2.0 m^2 is critical for
\* confidence >= 0.8 and severe for 0.6 <= confidence < 0.8, and critical
\* arises in no other case
C10_EscalationAboveTwo ==
    Returns =>
        /\ (result.value.damage_type \in HighImpact /\ UsedArea > 20000
              /\ result.value.confidence >= 80)
            => result.value.severity = "critical"
        /\ (result.value.damage_type \in HighImpact /\ UsedArea > 20000
              /\ result.value.confidence >= 60 /\ result.value.confidence < 80)
            => result.value.severity = "severe"
        /\ result.value.severity = "critical"
            => (result.value.damage_type \in HighImpact /\ UsedArea > 20000
                  /\ result.value.confidence >= 80)

\* C10 witness: an alligator crack of more than 2.0 m^2 and confidence in
\* [0.6, 0.8), escalated from moderate to severe
C10_Witness ==
    /\ Returns
    /\ result.value.damage_type = "D20_Alligator_Crack"
    /\ UsedArea > 20000
    /\ result.value.confidence >= 60
    /\ result.value.confidence < 80
    /\ result.value.severity = "severe"

(***************************************************************************)
(* Properties of the report generate_area_summary returns (SpecSummary).   *)
(***************************************************************************)
Reported == report.status = "returned"

CriticalCount == Cardinality({i \in 1..Len(all_damages) : all_damages[i].severity = "critical"})
SevereCount == Cardinality({i \in 1..Len(all_damages) : all_damages[i].severity = "severe"})

\* C6: for the empty estimate list and every total_images, 0 included, the
\* report is the clean one: EXCELLENT, all counts and totals 0, and nothing of
\* the aggregation of a non-empty list (no exception, none of its sections)
C6_EmptyListIsClean ==
    (report.status # "none" /\ all_damages = <<>>) =>
        /\ Reported
        /\ report.value.overall_condition = "EXCELLENT"
        /\ report.value.summary_statistics.total_images_surveyed = total_images
        /\ report.value.summary_statistics.damaged_locations = 0
        /\ report.value.summary_statistics.damage_rate_percentage = 0
        /\ report.value.summary_statistics.total_damaged_area_sqm = 0
        /\ report.value.summary_statistics.total_repair_cost_usd = 0
        /\ report.value.summary_statistics.total_repair_time_hours = 0
        /\ report.value.summary_statistics.estimated_project_duration_days = 0
        /\ DOMAIN report.value \cap
              {"severity_breakdown", "project_timeline", "budget_breakdown",
               "resource_requirements", "risk_assessment"} = {}

\* C6 witness: the clean report of a survey of 0 images
C6_Witness ==
    /\ Reported
    /\ all_damages = <<>>
    /\ total_images = 0
    /\ report.value.overall_condition = "EXCELLENT"

\* C7: for a non-empty list the overall condition is the first match of:
\* a critical estimate, CRITICAL; more than 2 severe, POOR; a severe estimate
\* or more than 5 estimates, FAIR; otherwise GOOD
C7_ConditionOrder ==
    (Reported /\ all_damages # <<>>) =>
        report.value.overall_condition =
            (IF CriticalCount > 0 THEN "CRITICAL"
             ELSE IF SevereCount > 2 THEN "POOR"
             ELSE IF SevereCount > 0 \/ Len(all_damages) > 5 THEN "FAIR"
             ELSE "GOOD")

\* C7 witness: exactly 3 severe among 6 estimates, none critical: POOR
C7_Witness ==
    /\ Reported
    /\ Len(all_damages) = 6
    /\ CriticalCount = 0
    /\ SevereCount = 3
    /\ report.value.overall_condition = "POOR"

(***************************************************************************)
(* SpecReorder: a short list of estimates is collected in any order and    *)
(* summarised.                                                             *)
(***************************************************************************)
\* the estimates of a list whose permutations are compared
MaxReorder == 3

\* three small cracks and patches of 16 x 16 pixels, a severe pothole and a
\* critical one
ReorderDetections ==
    {MakeDetection({"damage_type", "confidence", "bbox"}, "Repair", 30,
                   ListBBox(<<0, 0, 16, 16>>)),
     MakeDetection({"damage_type", "confidence", "bbox"}, "D10_Transverse_Crack", 30,
                   ListBBox(<<0, 0, 16, 16>>)),
     MakeDetection({"damage_type", "confidence", "bbox"}, "Repair", 60,
                   ListBBox(<<0, 0, 16, 16>>)),
     MakeDetection({"damage_type", "confidence", "bbox"}, "D40_Pothole", 85,
                   ListBBox(<<100, 200, 200, 100>>)),
     MakeDetection({"damage_type", "confidence", "bbox"}, "D40_Pothole", 85,
                   ListBBox(<<0, 0, 266, 100>>))}

InitReorder ==
    /\ detection = EmptyDict
    /\ image_shape \in {640}
    /\ result = NotCalled
    /\ all_damages = <<>>
    /\ area_name \in AreaNames
    /\ total_images = 0
    /\ clock \in {308}
    /\ report = NotCalled
    /\ NoBatch
    /\ NoRepeat
    /\ NoRequests

\* detailed_analyses.append(analyzer.analyze_single_damage(damage, image_shape))
CollectEstimate ==
    /\ report.status = "none"
    /\ Len(all_damages) < MaxReorder
    /\ \E d \in ReorderDetections :
          /\ detection' = d
          /\ result' = analyze_single_damage(d, image_shape)
          /\ result'.status = "returned"
          /\ all_damages' = Append(all_damages, result'.value)
    /\ UNCHANGED <<image_shape, area_name, total_images, clock, report, batchVars, repeatVars, webVars>>

\* analyzer.generate_area_summary(area_name, detailed_analyses, total_images)
SummariseCollected ==
    /\ report.status = "none"
    /\ all_damages # <<>>
    /\ \E n \in 1..MaxImages :
          /\ total_images' = n
          /\ report' = generate_area_summary(area_name, all_damages, n, clock)
    /\ UNCHANGED <<estimatorVars, all_damages, area_name, clock, batchVars, repeatVars, webVars>>

NextReorder == CollectEstimate \/ SummariseCollected

SpecReorder == InitReorder /\ [][NextReorder]_vars

(***************************************************************************)
(* SpecSurvey: the estimates of a survey are collected image by image, an  *)
(* image adding the estimates of all its detections, and summarised.       *)
(***************************************************************************)
\* the estimates of the longest survey
MaxSurvey == 11

\* the detections of an image: four small patches, three small alligator
\* cracks, a severe pothole, a critical pothole
SurveyImages ==
    {[i \in 1..4 |-> MakeDetection({"damage_type", "confidence", "bbox"}, "Repair", 30,
                                   ListBBox(<<0, 0, 16, 16>>))],
     [i \in 1..3 |-> MakeDetection({"damage_type", "confidence", "bbox"},
                                   "D20_Alligator_Crack", 30, ListBBox(<<0, 0, 16, 16>>))],
     <<MakeDetection({"damage_type", "confidence", "bbox"}, "D40_Pothole", 85,
                     ListBBox(<<100, 200, 200, 100>>))>>,
     <<MakeDetection({"damage_type", "confidence", "bbox"}, "D40_Pothole", 85,
                     ListBBox(<<0, 0, 266, 100>>))>>}

\* for detection in detections['detections']:
\*     detailed_damages.append(analyze_single_damage(detection, height))
\* for damage in result['detailed_damage_analysis']:
\*     all_detailed_damages.append(damage)
CollectImage ==
    /\ report.status = "none"
    /\ \E detections \in SurveyImages :
          /\ Len(all_damages) + Len(detections) <= MaxSurvey
          /\ detection' = detections[Len(detections)]
          /\ result' = analyze_single_damage(detection', image_shape)
          /\ \A i \in 1..Len(detections) :
                analyze_single_damage(detections[i], image_shape).status = "returned"
          /\ all_damages' =
                all_damages \o [i \in 1..Len(detections) |->
                                   analyze_single_damage(detections[i], image_shape).value]
    /\ UNCHANGED <<image_shape, area_name, total_images, clock, report, batchVars, repeatVars, webVars>>

NextSurvey == CollectImage \/ SummariseCollected

SpecSurvey == InitReorder /\ [][NextSurvey]_vars

(***************************************************************************)
(* SpecRepeat: one analyzer analyses a detection, serves other analysis    *)
(* and summary calls, and analyses the same detection again.               *)
(***************************************************************************)
\* the other analysis calls made between the two
MaxBetween == 2

\* the detections analysed twice: one per severity, and one whose analysis raises
RepeatDetections ==
    SummaryDetections \cup
    {MakeDetection({"damage_type", "confidence", "bbox"}, "D40_Pothole", 85,
                   ListBBox(<<0, 0, 100, 100, 0>>))}

InitRepeat ==
    /\ detection \in RepeatDetections
    /\ image_shape \in {640}
    /\ result = NotCalled
    /\ all_damages = <<>>
    /\ area_name \in AreaNames
    /\ total_images = 0
    /\ clock \in {308}
    /\ report = NotCalled
    /\ NoBatch
    /\ NoRepeat
    /\ NoRequests

\* first = analyzer.analyze_single_damage(detection, image_shape)
AnalyzeFirst ==
    /\ result.status = "none"
    /\ result' = AnalyzeOn(analyzer, detection, image_shape)
    /\ analyzer' = SelfAfterAnalyze(analyzer, result')
    /\ UNCHANGED <<detection, image_shape, summaryVars, batchVars, again, webVars>>

\* analyzer.analyze_single_damage(other, image_shape), its estimate kept
AnalyzeOther ==
    /\ result.status # "none"
    /\ again.status = "none"
    /\ Len(all_damages) < MaxBetween
    /\ \E other \in RepeatDetections :
          \E done \in {AnalyzeOn(analyzer, other, image_shape)} :
             /\ all_damages' = IF done.status = "returned"
                               THEN Append(all_damages, done.value)
                               ELSE all_damages
             /\ analyzer' = SelfAfterAnalyze(analyzer, done)
    /\ UNCHANGED <<estimatorVars, area_name, total_images, clock, report, batchVars, again, webVars>>

\* analyzer.generate_area_summary(area_name, estimates, total_images)
SummariseBetween ==
    /\ result.status # "none"
    /\ again.status = "none"
    /\ \E n \in {0, Len(all_damages)} :
          /\ total_images' = n
          /\ report' = generate_area_summary(area_name, all_damages, n, clock)
    /\ UNCHANGED <<estimatorVars, all_damages, area_name, clock, batchVars, repeatVars, webVars>>

\* second = analyzer.analyze_single_damage(detection, image_shape)
AnalyzeAgain ==
    /\ result.status # "none"
    /\ again.status = "none"
    /\ again' = AnalyzeOn(analyzer, detection, image_shape)
    /\ analyzer' = SelfAfterAnalyze(analyzer, again')
    /\ UNCHANGED <<estimatorVars, summaryVars, batchVars, webVars>>

NextRepeat == AnalyzeFirst \/ AnalyzeOther \/ SummariseBetween \/ AnalyzeAgain

SpecRepeat == InitRepeat /\ [][NextRepeat]_vars

(***************************************************************************)
(* SpecWeb: the batch uploads of app.py, all served by the one             *)
(* BatchRoadDamageProcessor of the module: each request calls              *)
(* process_folder and then generate_web_report, and the calls of different *)
(* requests interleave.                                                    *)
(***************************************************************************)
\* the uploads in flight
MaxRequests == 2

\* request.form.get('area_name', 'Unknown Area'): two names and an empty field
FormAreaNames == {"Highway A1 - Section 5", "Ring Road North", ""}

\* the uploaded folders: one or two images with no damage, with a damage and
\* GPS in the name, or with damages and no GPS
UploadedKinds ==
    {k \in FileKinds : k.suffix_ok /\ k.readable /\ k.inference = "ok" /\ k.copy = "ok"}

UploadedFolders ==
    UNION {{[k \in 1..n |-> NamedFile(kinds[k], k)] : kinds \in [1..n -> UploadedKinds]} :
              n \in 1..2}

\* a value Python takes as false in `a or b`: None or the empty string
Falsy(name) == name \in {"None", ""}

\* area_name or flight_name or 'Unknown Area' (batch_processor.py, line 185)
AreaNameOf(given_area, given_flight) ==
    IF ~Falsy(given_area) THEN given_area
    ELSE IF ~Falsy(given_flight) THEN given_flight
    ELSE "Unknown Area"

\* extract_location_info(self, img_data): the GPS of the result, else the GPS
\* parsed from the file name, else self.current_area_name (`current`)
extract_location_info(img_data, files, current) ==
    LET named == SelectSeq(files, LAMBDA f : f.filename = DictGet(img_data, "filename", ""))
        parsed == IF named = <<>> THEN [lat |-> <<>>, lon |-> <<>>]
                  ELSE extract_gps_from_filename(named[1])
    IN  IF DictGet(img_data, "latitude", <<>>) \notin {<<>>, <<0>>}
           /\ DictGet(img_data, "longitude", <<>>) \notin {<<>>, <<0>>}
        THEN <<"GPS", img_data.latitude[1], img_data.longitude[1]>>
        ELSE IF parsed.lat \notin {<<>>, <<0>>} /\ parsed.lon \notin {<<>>, <<0>>}
        THEN <<"GPS", parsed.lat[1], parsed.lon[1]>>
        ELSE <<"Area", current>>

\* what process_folder returns for an uploaded folder (lines 207-265)
ProcessedFolder(files, flight, now) ==
    LET found == ImageFiles(files)
        processed == [k \in 1..Len(found) |->
                         process_single_image(found[k], flight, TRUE, now).result]
        tagged == [k \in 1..Len(processed) |-> TagResult(processed[k])]
    IN  [summary |-> generate_summary_report(processed, flight, "tmp", ConfidenceThreshold, now),
         area_analysis |->
            generate_area_summary(flight, AllDetailedDamages(processed), Len(found), now).value,
         damaged_images |-> SelectSeq(tagged, LAMBDA r : DictGet(r, "has_damage", FALSE)),
         clean_images |-> SelectSeq(tagged, LAMBDA r : "clean_image_path" \in DOMAIN r)]

InitWeb ==
    /\ detection = EmptyDict
    /\ image_shape \in {640}
    /\ result = NotCalled
    /\ all_damages = <<>>
    /\ area_name \in AreaNames
    /\ total_images = 0
    /\ clock \in {308}
    /\ report = NotCalled
    /\ NoBatch
    /\ NoRepeat
    /\ NoRequests

\* batch_upload_api, lines 110-137: the form is read and the files are saved
ReceiveUpload ==
    /\ Len(requests) < MaxRequests
    /\ \E form_area \in FormAreaNames, files \in UploadedFolders :
          requests' = Append(requests,
                             [area_name |-> form_area, flight_name |-> "Survey 12",
                              files |-> files, at |-> "saved",
                              results |-> NotCalled, labels |-> <<>>])
    /\ UNCHANGED <<estimatorVars, summaryVars, batchVars, repeatVars>>

\* batch_upload_api, lines 143-147: results = batch_processor.process_folder(
\* temp_dir, flight_name, area_name), and the area name put into the results
ServeProcessFolder ==
    /\ \E r \in 1..Len(requests) :
          /\ requests[r].at = "saved"
          /\ current_area_name' = AreaNameOf(requests[r].area_name, requests[r].flight_name)
          /\ \E data \in {ProcessedFolder(requests[r].files, requests[r].flight_name, clock)} :
                requests' =
                   [requests EXCEPT
                       ![r].at = "processed",
                       ![r].results =
                           Returned([data EXCEPT !.area_analysis.area_name =
                                                     requests[r].area_name])]
    /\ UNCHANGED <<estimatorVars, summaryVars, repeatVars, input_folder, flight_name,
                   model_loaded, pc, image_files, results, damaged_images, clean_images,
                   copied, model_calls, produced, summary, report_file, outcome>>

\* batch_upload_api, line 150: html_report = batch_processor.generate_web_report(
\* results); the location labels of its damage cards (lines 495-496, 672)
ServeWebReport ==
    /\ \E r \in 1..Len(requests) :
          /\ requests[r].at = "processed"
          /\ requests' =
                [requests EXCEPT
                    ![r].at = "reported",
                    ![r].labels =
                        [i \in 1..Len(requests[r].results.value.damaged_images) |->
                            extract_location_info(
                                requests[r].results.value.damaged_images[i],
                                requests[r].files, current_area_name)]]
    /\ UNCHANGED <<estimatorVars, summaryVars, batchVars, repeatVars>>

NextWeb == ReceiveUpload \/ ServeProcessFolder \/ ServeWebReport

SpecWeb == InitWeb /\ [][NextWeb]_vars

(***************************************************************************)
(* Properties of determine_severity, on the estimate returned (Spec).      *)
(***************************************************************************)
\* the detection has a bbox the area is defined for: no list of more than 4
\* coordinates (C3)
AreaDefined ==
    LET bbox == DictGet(detection, "bbox", ListBBox(<<0, 0, 100, 100>>))
    IN  bbox.null \/ Len(bbox.coords) <= 4

\* C11: without escalation (a type outside the high-impact set, or a
\* high-impact type of at most 0.5 m^2) the severity is the confidence bucket:
\* severe from 0.8, moderate from 0.6, minor below; a confidence below 0.4 is
\* not rejected, its call returns an estimate, of severity minor
C11_BucketWhenNotEscalated ==
    /\ (Returns /\ (result.value.damage_type \notin HighImpact \/ UsedArea <= 5000)) =>
          result.value.severity =
              (IF result.value.confidence >= 80 THEN "severe"
               ELSE IF result.value.confidence >= 60 THEN "moderate"
               ELSE "minor")
    /\ (result.status # "none" /\ AreaDefined
          /\ DictGet(detection, "confidence", DefaultConfidence) < 40) => Returns

\* C11 witness: a transverse crack of confidence 0.3 and more than 2.0 m^2,
\* estimated as minor
C11_Witness ==
    /\ Returns
    /\ result.value.damage_type = "D10_Transverse_Crack"
    /\ result.value.confidence = 30
    /\ UsedArea > 20000
    /\ result.value.severity = "minor"

\* C12: for the type and area of the estimate, determine_severity is monotonic
\* in the confidence: a confidence at least as high never gives a lower severity
C12_MonotonicInConfidence ==
    Returns =>
        \A c1, c2 \in Confidences :
            c1 <= c2 =>
                SeverityRank(determine_severity(c1, result.value.damage_type, UsedArea))
                    <= SeverityRank(determine_severity(c2, result.value.damage_type, UsedArea))

\* C12 witness: a pothole between 0.5 and 2.0 m^2 of confidence 0.59, raised
\* from minor to moderate, the severity confidence 0.6 gives too
C12_Witness ==
    /\ Returns
    /\ result.value.damage_type = "D40_Pothole"
    /\ UsedArea > 5000
    /\ UsedArea <= 20000
    /\ result.value.confidence = 59
    /\ result.value.severity = "moderate"
    /\ determine_severity(60, "D40_Pothole", UsedArea) = "moderate"

(***************************************************************************)
(* Properties of the sections of the report (SpecSummary).                 *)
(***************************************************************************)
\* the budget section of the report, and the sum of its five categories
Budget == report.value.budget_breakdown
CategorySum ==
    Budget.categories.materials + Budget.categories.labor
        + Budget.categories.equipment + Budget.categories.traffic_control
        + Budget.categories.contingency

SeverityCount(severity) ==
    Cardinality({i \in 1..Len(all_damages) : all_damages[i].severity = severity})

Risk == report.value.risk_assessment

\* C14: for a non-empty list risk_score is the sum of the weights critical 4,
\* severe 3, moderate 2, minor 1, and risk_level is VERY HIGH from 15, HIGH
\* from 10, MEDIUM from 5, LOW below 5
C14_RiskScoreAndLevel ==
    (Reported /\ all_damages # <<>>) =>
        /\ Risk.risk_score =
              4 * SeverityCount("critical") + 3 * SeverityCount("severe")
                  + 2 * SeverityCount("moderate") + SeverityCount("minor")
        /\ Risk.risk_level =
              (IF Risk.risk_score >= 15 THEN "VERY HIGH"
               ELSE IF Risk.risk_score >= 10 THEN "HIGH"
               ELSE IF Risk.risk_score >= 5 THEN "MEDIUM"
               ELSE "LOW")

\* C14 witness: one severe and one moderate estimate, score 5, MEDIUM
C14_Witness ==
    /\ Reported
    /\ Len(all_damages) = 2
    /\ SeverityCount("severe") = 1
    /\ SeverityCount("moderate") = 1
    /\ Risk.risk_score = 5
    /\ Risk.risk_level = "MEDIUM"

(***************************************************************************)
(* Properties of a batch run (SpecBatch).                                  *)
(***************************************************************************)
\* the image files of the folder, in scan order
Found == SelectSeq(input_folder.files, LAMBDA f : f.suffix_ok)

\* the detector failed on the image: it has no model, or the model call raised
DetectorFailed(file) == file.readable /\ (~model_loaded \/ file.inference = "raises")

IsDamagedRecord(r) == DictGet(r, "has_damage", FALSE)
IsCleanRecord(r) == "clean_image_path" \in DOMAIN r
IsErrorRecord(r) == "error" \in DOMAIN r

\* the files the run wrote to one output directory
CopiedTo(directory) == {i \in 1..Len(copied) : copied[i][1] = directory}

\* C15: an image the detector failed on has an error record, is counted in
\* error_count and in neither damaged_count nor clean_count, and is not
\* copied to the clean images
C15_DetectorFailureIsError ==
    /\ \A k \in 1..Len(results) :
          DetectorFailed(image_files[k]) =>
              /\ IsErrorRecord(results[k])
              /\ ~IsCleanRecord(results[k])
              /\ ~IsDamagedRecord(results[k])
    /\ pc = "done" =>
          /\ summary.value.error_count >=
                Cardinality({k \in 1..Len(results) : DetectorFailed(image_files[k])})
          /\ summary.value.clean_count <=
                Cardinality({k \in 1..Len(results) : ~DetectorFailed(image_files[k])})

\* C16: once images are found the batch is not aborted: the images found are
\* processed once each in scan order, each gives one record that is exactly
\* one of damaged, clean and error, and the run goes on to return a summary
\* with total_images the number of images found
C16_BatchNeverAborts ==
    /\ [](pc \in {"loop", "done"} =>
            /\ image_files = Found
            /\ Len(results) <= Len(Found)
            /\ Len(produced) = Len(results)
            /\ \A k \in 1..Len(results) :
                  /\ Cardinality({b \in {"damaged", "clean", "error"} :
                        \/ b = "damaged" /\ IsDamagedRecord(results[k])
                        \/ b = "clean" /\ IsCleanRecord(results[k])
                        \/ b = "error" /\ IsErrorRecord(results[k])}) = 1
                  /\ "filename" \in DOMAIN results[k] =>
                        results[k].filename = Found[k].filename)
    /\ [](pc = "aborted" => Found = <<>>)
    /\ [](pc = "done" =>
            /\ Len(results) = Len(Found)
            /\ outcome.status = "returned"
            /\ outcome.value.summary.total_images = Len(Found))
    /\ (pc = "loop") ~> (pc = "done")

\* C16 witness: a run over 3 images, one undecodable, one the model raised
\* on and one that could not be copied, that returned its summary
C16_Witness ==
    /\ pc = "done"
    /\ Len(Found) = 3
    /\ \E k \in 1..3 : ~Found[k].readable
    /\ \E k \in 1..3 : Found[k].readable /\ Found[k].inference = "raises"
    /\ \E k \in 1..3 : Found[k].copy = "raises"
    /\ outcome.value.summary.total_images = 3

\* C17: process_folder raises, with no image processed (no model call, no
\* estimate, no file copied, no report written), exactly when the folder does
\* not exist or holds no image file
C17_AbortIffNoInput ==
    /\ pc = "aborted" =>
          /\ ~input_folder.exists \/ Found = <<>>
          /\ outcome.status = "raised"
          /\ results = <<>>
          /\ produced = <<>>
          /\ model_calls = 0
          /\ copied = <<>>
          /\ report_file.status = "none"
    /\ (pc # "start" /\ (~input_folder.exists \/ Found = <<>>)) => pc = "aborted"

\* C17 witness: a folder that exists and holds text files only, aborted
C17_Witness ==
    /\ pc = "aborted"
    /\ input_folder.exists
    /\ Len(input_folder.files) = 2
    /\ outcome = Raised("ValueError: No image files found in")

\* C19: the estimates of every result stay as analyze_single_damage returned
\* them, through the rest of the run
C19_EstimatesUnchanged ==
    \A k \in 1..Len(results) :
        HasDetailedDamages(results[k]) =>
            results[k].detailed_damage_analysis = produced[k]

DemoAnalysed ==
    /\ detection = DemoPothole
    /\ result.status = "returned"

\* C20 as stated: the estimate of {D40_Pothole, 0.85, [100,150,180,220]} has
\* area_sqm 0.56, severity severe, repair_cost 3360.0, repair_time_hours 2.24
\* and repair_days 1 (repair_time_hours is in tenths of an hour: 2.24 h = 22.4)
C20_DemoEstimateAsStated ==
    DemoAnalysed =>
        /\ result.value.area_sqm = 56
        /\ result.value.severity = "severe"
        /\ result.value.repair_cost = 336000
        /\ result.value.repair_time_hours * 10 = 224
        /\ result.value.repair_days = 1

\* C20: the estimate of {D40_Pothole, 0.85, [100,150,180,220]} has area_sqm
\* 0.56, severity severe (base severity, the area being under 2.0 m^2),
\* repair_cost 3360.0, repair_time_hours 2.2 (0.56 x 4.0 rounded to one
\* decimal) and repair_days 1
C20_DemoEstimate ==
    DemoAnalysed =>
        /\ result.value.area_sqm = 56
        /\ result.value.severity = "severe"
        /\ result.value.severity = BaseSeverity(result.value.confidence)
        /\ result.value.repair_cost = 336000
        /\ result.value.repair_time_hours = 22
        /\ result.value.repair_days = 1

\* the demonstration pothole analysed at either image height
C20_Witness ==
    /\ DemoAnalysed
    /\ result.value.damage_type = "D40_Pothole"
    /\ result.value.confidence = 85

(***************************************************************************)
(* Properties of the report under reordering of the estimates              *)
(* (SpecReorder) and of its sections (SpecSummary).                        *)
(***************************************************************************)
\* the orders a list of n estimates can enter in
Orders(n) == {p \in [1..n -> 1..n] : \A i, j \in 1..n : p[i] = p[j] => i = j}

Permuted(xs, p) == [i \in 1..Len(xs) |-> xs[p[i]]]

\* the sections of a report that are sums, maxima, counts or unions
OrderFree(r) ==
    [overall_condition |-> r.overall_condition,
     severity_breakdown |-> r.severity_breakdown,
     damage_type_breakdown |-> r.damage_type_breakdown,
     priority_breakdown |-> r.priority_breakdown,
     summary_statistics |-> r.summary_statistics,
     phase_days |-> <<r.project_timeline.immediate_phase.duration_days,
                      r.project_timeline.urgent_phase.duration_days,
                      r.project_timeline.scheduled_phase.duration_days,
                      r.project_timeline.preventive_phase.duration_days>>,
     total_days |-> r.project_timeline.total_days,
     budget_breakdown |-> r.budget_breakdown,
     peak_crew_size |-> r.resource_requirements.peak_crew_size,
     estimated_trucks_needed |-> r.resource_requirements.estimated_trucks_needed,
     equipment_list |-> r.resource_requirements.equipment_list,
     material_types |-> r.resource_requirements.material_types,
     risk_score |-> r.risk_assessment.risk_score,
     risk_level |-> r.risk_assessment.risk_level]

\* the report of the same estimates entering in the order p
Reordered(p) ==
    generate_area_summary(area_name, Permuted(all_damages, p), total_images, clock).value

\* C21: in whatever order the estimates of a list enter, the report has the
\* same condition, counts, totals, phase durations, budget amounts, crew,
\* trucks, equipment and materials, risk score and risk level
C21_OrderFreeSections ==
    Reported =>
        \A p \in Orders(Len(all_damages)) :
            OrderFree(Reordered(p)) = OrderFree(report.value)

\* the same but for the budget categories, which are float sums rounded
OrderFreeButBudget ==
    Reported =>
        \A p \in Orders(Len(all_damages)) :
            [OrderFree(Reordered(p)) EXCEPT !.budget_breakdown.categories = <<>>]
                = [OrderFree(report.value) EXCEPT !.budget_breakdown.categories = <<>>]

Timeline == report.value.project_timeline

\* the phases in the order of the priority levels 1 to 4
Phases == <<"immediate_phase", "urgent_phase", "scheduled_phase", "preventive_phase">>

\* the estimates of a priority level, and the repair days they add up to
AtLevel(p) == {i \in 1..Len(all_damages) : all_damages[i].priority.level = p}
DaysAtLevel(p) ==
    SumSeq([i \in 1..Len(all_damages) |->
               IF i \in AtLevel(p) THEN all_damages[i].repair_days ELSE 0])

\* C23: each estimate is in exactly one phase, that of its priority level;
\* the level-1 phase lasts the longest repair of its items (0 without items),
\* the level-2, 3 and 4 phases the sum of their repair days divided by 2, 3
\* and 4 rounded down, and total_days is the sum of the four, at least 1
C23_PhasesAndDurations ==
    (Reported /\ all_damages # <<>>) =>
        /\ \A p \in 1..4 :
              /\ Len(Timeline[Phases[p]].damages) = Cardinality(AtLevel(p))
              /\ \A j \in 1..Len(Timeline[Phases[p]].damages) :
                    Timeline[Phases[p]].damages[j].priority.level = p
        /\ \A i \in 1..Len(all_damages) : all_damages[i].priority.level \in 1..4
        /\ IF AtLevel(1) = {}
           THEN Timeline.immediate_phase.duration_days = 0
           ELSE /\ \E i \in AtLevel(1) :
                      Timeline.immediate_phase.duration_days = all_damages[i].repair_days
                /\ \A i \in AtLevel(1) :
                      Timeline.immediate_phase.duration_days >= all_damages[i].repair_days
        /\ \A p \in 2..4 : Timeline[Phases[p]].duration_days = DaysAtLevel(p) \div p
        /\ Timeline.total_days =
              Max(Timeline.immediate_phase.duration_days + Timeline.urgent_phase.duration_days
                  + Timeline.scheduled_phase.duration_days
                  + Timeline.preventive_phase.duration_days, 1)

\* three severe estimates of one day each, an urgent phase of 3 \div 2 = 1
\* day, and a minor one whose phase lasts 1 \div 4 = 0 days
C23_Witness ==
    /\ Reported
    /\ Cardinality(AtLevel(2)) = 3
    /\ DaysAtLevel(2) = 3
    /\ Timeline.urgent_phase.duration_days = 1
    /\ Cardinality(AtLevel(4)) = 1
    /\ Timeline.preventive_phase.duration_days = 0
    /\ Timeline.total_days = 1

Recommended == [i \in 1..Len(report.value.recommendations) |->
                   report.value.recommendations[i].priority]

RecommendationOrder == <<"IMMEDIATE", "URGENT", "STRATEGIC", "PLANNING", "PREVENTIVE">>

\* the place of a priority in the fixed order
RecommendationRank(priority) ==
    CHOOSE k \in 1..Len(RecommendationOrder) : RecommendationOrder[k] = priority

HasRecommendation(priority) == \E i \in 1..Len(Recommended) : Recommended[i] = priority

\* C24: for a non-empty list the recommendations are a subsequence of
\* IMMEDIATE, URGENT, STRATEGIC, PLANNING, PREVENTIVE, each at most once:
\* IMMEDIATE iff some estimate is critical, URGENT iff some is severe,
\* STRATEGIC iff more than 2 are D20_Alligator_Crack, PLANNING iff there are
\* more than 10 estimates, PREVENTIVE always and last; at most 5 entries
C24_RecommendationsInFixedOrder ==
    (Reported /\ all_damages # <<>>) =>
        /\ \A i \in 1..Len(Recommended) :
              \E k \in 1..Len(RecommendationOrder) : RecommendationOrder[k] = Recommended[i]
        /\ \A i, j \in 1..Len(Recommended) :
              i < j => RecommendationRank(Recommended[i]) < RecommendationRank(Recommended[j])
        /\ HasRecommendation("IMMEDIATE") <=>
              \E i \in 1..Len(all_damages) : all_damages[i].severity = "critical"
        /\ HasRecommendation("URGENT") <=>
              \E i \in 1..Len(all_damages) : all_damages[i].severity = "severe"
        /\ HasRecommendation("STRATEGIC") <=>
              Cardinality({i \in 1..Len(all_damages) :
                              all_damages[i].damage_type = "D20_Alligator_Crack"}) > 2
        /\ HasRecommendation("PLANNING") <=> Len(all_damages) > 10
        /\ Recommended # <<>>
        /\ Recommended[Len(Recommended)] = "PREVENTIVE"
        /\ Len(Recommended) <= 5

\* eleven estimates with a critical one, a severe one and three alligator
\* cracks: all five recommendations
C24_Witness ==
    /\ Reported
    /\ Len(all_damages) = 11
    /\ Recommended = RecommendationOrder

\* ten estimates: no PLANNING recommendation yet
C24_WitnessTen ==
    /\ Reported
    /\ Len(all_damages) = 10
    /\ ~HasRecommendation("PLANNING")

\* the critical and severe estimates, and the place of one among them
RiskyAt == {i \in 1..Len(all_damages) : all_damages[i].severity \in {"critical", "severe"}}
RiskyRank(i) == Cardinality({j \in RiskyAt : j <= i})

\* C25: for a non-empty list the risk factors are the first five critical or
\* severe estimates in the order of the list, each named by its severity and
\* damage type; moderate and minor estimates do not appear, and there are
\* never more than 5 factors
C25_FactorsAreFirstFiveRisky ==
    (Reported /\ all_damages # <<>>) =>
        /\ Len(Risk.factors) = (IF Cardinality(RiskyAt) < 5 THEN Cardinality(RiskyAt) ELSE 5)
        /\ \A i \in RiskyAt :
              RiskyRank(i) <= 5 =>
                 Risk.factors[RiskyRank(i)] =
                    <<IF all_damages[i].severity = "critical" THEN "Critical" ELSE "Severe",
                      all_damages[i].damage_type>>
        /\ Len(Risk.factors) <= 5

\* six critical and severe estimates of both kinds: the sixth is not named
C25_Witness ==
    /\ Reported
    /\ Cardinality(RiskyAt) = 6
    /\ Len(Risk.factors) = 5
    /\ all_damages[6].severity = "critical"
    /\ all_damages[1].severity = "severe"
    /\ Risk.factors[5][1] = "Severe"

\* a moderate and a minor estimate between two severe ones are passed over
C25_WitnessPassedOver ==
    /\ Reported
    /\ Len(all_damages) = 4
    /\ all_damages[2].severity = "moderate"
    /\ all_damages[3].severity = "minor"
    /\ RiskyAt = {1, 4}
    /\ Len(Risk.factors) = 2

(***************************************************************************)
(* Properties of the routing and the reports of a batch run (SpecBatch).   *)
(***************************************************************************)
\* the detection list the detector gave for an image
DetectionsOf(file) == detect_damage(file, model_loaded).value.detections

\* the image has a record in the bucket
InBucket(bucket, file) == \E j \in 1..Len(bucket) : bucket[j].filename = file.filename

\* what an estimate is the estimate of: its image and its detection
EstimateKey(source_image, d) ==
    [source_image |-> source_image, damage_type |-> d.damage_type,
     confidence |-> d.confidence, bbox |-> d.bbox]

\* the detections of the images of the damaged bucket, in scan order then
\* detection order
DamagedDetections ==
    Flatten([k \in 1..Len(image_files) |->
                IF InBucket(damaged_images, image_files[k])
                THEN [j \in 1..Len(DetectionsOf(image_files[k])) |->
                         EstimateKey(image_files[k].filename, DetectionsOf(image_files[k])[j])]
                ELSE <<>>])

\* the list passed to generate_area_summary holds one estimate per detection
\* of every image of the damaged bucket, in order, and nothing else
EstimatesOfDamaged ==
    [i \in 1..Len(all_damages) |-> EstimateKey(all_damages[i].source_image, all_damages[i])]
        = DamagedDetections

\* C22 as stated: every image the detector was run on is in the damaged
\* bucket exactly when its detection list is non-empty and in the clean
\* bucket exactly when it is empty, and the estimates summarised are those of
\* the damaged images
C22_RoutedByDetections ==
    pc = "done" =>
        /\ \A k \in 1..Len(image_files) :
              image_files[k].readable =>
                 /\ InBucket(damaged_images, image_files[k])
                       <=> DetectionsOf(image_files[k]) # <<>>
                 /\ InBucket(clean_images, image_files[k])
                       <=> DetectionsOf(image_files[k]) = <<>>
        /\ EstimatesOfDamaged

\* what does hold: an image processed without an error is routed by its
\* detection list, an image with an error record is in neither bucket
RoutedUnlessError ==
    pc = "done" =>
        /\ \A k \in 1..Len(image_files) :
              IF IsErrorRecord(results[k])
              THEN /\ ~InBucket(damaged_images, image_files[k])
                   /\ ~InBucket(clean_images, image_files[k])
              ELSE /\ InBucket(damaged_images, image_files[k])
                         <=> DetectionsOf(image_files[k]) # <<>>
                   /\ InBucket(clean_images, image_files[k])
                         <=> DetectionsOf(image_files[k]) = <<>>
        /\ EstimatesOfDamaged


\* the results counted as damaged, as clean and as errors
CountedDamaged == {k \in 1..Len(results) : DictGet(results[k], "has_damage", FALSE)}
CountedClean == {k \in 1..Len(results) : "clean_image_path" \in DOMAIN results[k]}
CountedError == {k \in 1..Len(results) : "error" \in DOMAIN results[k]}

\* C26: after a batch run every result is counted in exactly one of
\* damaged_count, clean_count and error_count, so that total_images is the
\* sum of the three
C26_CountersPartitionImages ==
    summary.status = "returned" =>
        /\ summary.value.total_images = Len(image_files)
        /\ summary.value.damaged_count = Cardinality(CountedDamaged)
        /\ summary.value.clean_count = Cardinality(CountedClean)
        /\ summary.value.error_count = Cardinality(CountedError)
        /\ CountedDamaged \cup CountedClean \cup CountedError = 1..Len(image_files)
        /\ CountedDamaged \cap CountedClean = {}
        /\ CountedDamaged \cap CountedError = {}
        /\ CountedClean \cap CountedError = {}
        /\ summary.value.total_images =
              summary.value.damaged_count + summary.value.clean_count
              + summary.value.error_count

\* a folder with a damaged image, a clean one and one that cannot be copied
C26_Witness ==
    /\ summary.status = "returned"
    /\ summary.value.total_images = 3
    /\ summary.value.damaged_count = 1
    /\ summary.value.clean_count = 1
    /\ summary.value.error_count = 1
    /\ \E k \in 1..3 : image_files[k].copy = "raises"

\* a folder of undecodable images and images that cannot be copied
C26_WitnessAllErrors ==
    /\ summary.status = "returned"
    /\ summary.value.error_count = 3
    /\ \E k \in 1..3 : ~image_files[k].readable
    /\ \E k \in 1..3 : image_files[k].copy = "raises"


\* the two reports process_folder returned
ReturnedSummary == outcome.value.summary
ReturnedArea == outcome.value.area_analysis

\* C27: the two reports of a batch run agree: the condition of the area is
\* EXCELLENT exactly when damaged_count is 0, and when it is not EXCELLENT
\* damaged_locations equals total_damages_detected
C27_ReportsAgree ==
    (pc = "done" /\ outcome.status = "returned") =>
        /\ ReturnedArea.overall_condition = "EXCELLENT"
              <=> ReturnedSummary.damaged_count = 0
        /\ ReturnedArea.overall_condition # "EXCELLENT" =>
              ReturnedArea.summary_statistics.damaged_locations
                 = ReturnedSummary.total_damages_detected

\* an image with two detections and one with one: two damaged images, three
\* damaged locations
C27_Witness ==
    /\ pc = "done"
    /\ outcome.status = "returned"
    /\ ReturnedSummary.damaged_count = 2
    /\ ReturnedSummary.total_damages_detected = 3
    /\ ReturnedArea.summary_statistics.damaged_locations = 3
    /\ ReturnedArea.overall_condition = "CRITICAL"

\* a folder whose only damaged image cannot be copied: no damaged image, an
\* EXCELLENT area
C27_WitnessExcellent ==
    /\ pc = "done"
    /\ outcome.status = "returned"
    /\ ReturnedSummary.damaged_count = 0
    /\ ReturnedSummary.error_count = 1
    /\ ReturnedArea.overall_condition = "EXCELLENT"


\* C28 as stated: the damage rate of the area report of a batch run, in
\* tenths of a percent, lies between 0 and 100 percent
C28_DamageRateWithinHundred ==
    (pc = "done" /\ outcome.status = "returned") =>
        /\ ReturnedArea.summary_statistics.damage_rate_percentage >= 0
        /\ ReturnedArea.summary_statistics.damage_rate_percentage <= 1000

\* what does hold: the rate is within 0 and 100 percent when no image
\* contributes more than one estimate
DamageRateWithinHundredPerImage ==
    (pc = "done" /\ outcome.status = "returned"
     /\ \A k \in 1..Len(image_files) : Len(produced[k]) <= 1) =>
        /\ ReturnedArea.summary_statistics.damage_rate_percentage >= 0
        /\ ReturnedArea.summary_statistics.damage_rate_percentage <= 1000

(***************************************************************************)
(* Properties of the crew of an estimate (Spec).                           *)
(***************************************************************************)
\* sum(crew_size['roles'].values())
RolesTotal(roles) ==
    DictGet(roles, "supervisor", 0) + DictGet(roles, "equipment_operator", 0)
    + DictGet(roles, "skilled_workers", 0) + DictGet(roles, "traffic_control", 0)
    + DictGet(roles, "safety_officer", 0)

\* C29 as stated: in every estimate the crew role counts add up to the crew
\* total
C29_RolesAddUpToTotal ==
    result.status = "returned" =>
        RolesTotal(result.value.crew_size.roles) = result.value.crew_size.total

\* what does hold: the roles add up to the total for a crew of two, and to
\* more than the total for every larger crew
RolesAddUpForCrewOfTwo ==
    result.status = "returned" =>
        IF result.value.crew_size.total = 2
        THEN RolesTotal(result.value.crew_size.roles) = 2
        ELSE RolesTotal(result.value.crew_size.roles) > result.value.crew_size.total


(***************************************************************************)
(* Properties of the reports of the uploads served by one processor        *)
(* (SpecWeb).                                                              *)
(***************************************************************************)
\* the damage cards of a request whose image has no GPS coordinates
CardsWithoutGPS(r) ==
    {i \in 1..Len(requests[r].labels) :
        DictGet(requests[r].results.value.damaged_images[i], "latitude", <<>>) = <<>>}

\* the area name given to the process_folder call of a request
OwnAreaName(r) == AreaNameOf(requests[r].area_name, requests[r].flight_name)

\* C30 as stated: in the report of every request, the area label of an image
\* without GPS coordinates is the area name given to the request's own
\* process_folder call
C30_LabelIsOwnAreaName ==
    \A r \in 1..Len(requests) :
        requests[r].at = "reported" =>
            \A i \in CardsWithoutGPS(r) : requests[r].labels[i] = <<"Area", OwnAreaName(r)>>

\* what does hold: the label is the own area name in a report written while
\* no other request has called process_folder, and in every report it is the
\* area name of some request that has
LabelIsOwnWhenAlone ==
    \A r \in 1..Len(requests) :
        requests[r].at = "reported" =>
            /\ (\A o \in 1..Len(requests) : o # r => requests[o].at = "saved") =>
                  \A i \in CardsWithoutGPS(r) :
                      requests[r].labels[i] = <<"Area", OwnAreaName(r)>>
            /\ \A i \in CardsWithoutGPS(r) :
                  \E o \in 1..Len(requests) :
                      /\ requests[o].at # "saved"
                      /\ requests[r].labels[i] = <<"Area", OwnAreaName(o)>>

=============================================================================
